---- MODULE Spec2Model ----
(***************************************************************************)
(* The semantic passes of the ASL compiler (symbols, type check, code      *)
(* generation) as a state machine over a syntax tree.  The walker's        *)
(* position is pc; the shared state is the symbol table, the tree          *)
(* decorations, the error sink and the code under construction.            *)
(***************************************************************************)
EXTENDS Integers, Sequences, FiniteSets, TLC

VARIABLES
  variant,          \* which build runs: "examen" or "practica" visitors
  tree,             \* the syntax tree: a sequence of Function nodes
  pc,               \* position of the tree walk: [pass, fn, at, i]
  Symbols,          \* SymTable: [scopes, stack]
  Decorations,      \* TreeDecoration: [scope, type, isLValue], node -> value
  Errors,           \* SemErrors: [list, printed]
  unsetTy,          \* what a read of a never written type decoration yields
  lParamsTy,        \* SymbolsVisitor::visitFunction's local lParamsTy
  currFunctionType, \* TypeCheckVisitor::currFunctionType
  codeCounters,     \* counters of the code generator: [temp, lif, lwhile]
  subr,             \* the subroutine under construction
  my_code,          \* CodeGenVisitor::visitProgram's my_code: the subroutines
  traversal,        \* nodes the type check visited / read: [vis, rdT, rdL]
  vm                \* the machine running generated code: [status, ip, mem, ...]

vars == <<variant, tree, pc, Symbols, Decorations, Errors, unsetTy, lParamsTy,
          currFunctionType, codeCounters, subr, my_code, traversal, vm>>

(***************************************************************************)
(* Bounds of the model.                                                    *)
(***************************************************************************)
MaxFuncs == 2      \* functions of a declaration program
ArraySize == 2     \* size of the declared arrays
MaxNest == 2       \* nesting depth of if / while in the control-flow programs

(***************************************************************************)
(* Sequence helpers.                                                       *)
(***************************************************************************)
Range(s) == {s[i] : i \in DOMAIN s}

RECURSIVE Flatten(_)
Flatten(ss) == IF ss = <<>> THEN <<>> ELSE Head(ss) \o Flatten(Tail(ss))

(***************************************************************************)
(* Types manager.  A type is a record; interning is structural equality.   *)
(***************************************************************************)
Ty(k) == [k |-> k, n |-> 0, n2 |-> 0, el |-> "", ps |-> <<>>, r |-> ""]
NoTy == Ty("")

createErrorTy == Ty("Error")
createVoidTy == Ty("Void")
createIntegerTy == Ty("Integer")
createFloatTy == Ty("Float")
createBooleanTy == Ty("Boolean")
createCharacterTy == Ty("Character")
createArrayTy(size, tElem) ==
  [k |-> "Array", n |-> size, n2 |-> 0, el |-> tElem.k, ps |-> <<>>, r |-> ""]
\* a matrix type: rows in n, columns in n2
createMatrixTy(rows, cols, tElem) ==
  [k |-> "Matrix", n |-> rows, n2 |-> cols, el |-> tElem.k, ps |-> <<>>, r |-> ""]
createFunctionTy(lParams, tRet) ==
  [k |-> "Function", n |-> 0, n2 |-> 0, el |-> "", ps |-> lParams, r |-> tRet.k]

isErrorTy(t) == t.k = "Error"
isVoidTy(t) == t.k = "Void"
isIntegerTy(t) == t.k = "Integer"
isFloatTy(t) == t.k = "Float"
isBooleanTy(t) == t.k = "Boolean"
isCharacterTy(t) == t.k = "Character"
isArrayTy(t) == t.k = "Array"
isFunctionTy(t) == t.k = "Function"
isMatrixTy(t) == t.k = "Matrix"
isNumericTy(t) == isIntegerTy(t) \/ isFloatTy(t)
isPrimitiveTy(t) == t.k \in {"Integer", "Float", "Boolean", "Character"}
isVoidFunction(t) == isFunctionTy(t) /\ t.r = "Void"

getArrayElemType(t) == Ty(t.el)
getArraySize(t) == t.n
getFuncReturnType(t) == Ty(t.r)
getNumOfParameters(t) == Len(t.ps)
getParameterType(t, i) == t.ps[i]
getSizeOfType(t) ==
  IF isArrayTy(t) THEN t.n ELSE IF isMatrixTy(t) THEN t.n * t.n2 ELSE 1

copyableTypes(tTo, tFrom) ==
  \/ isErrorTy(tTo) \/ isErrorTy(tFrom)
  \/ tTo = tFrom
  \/ isFloatTy(tTo) /\ isNumericTy(tFrom)

comparableTypes(t1, t2, op) ==
  IF op \in {"==", "!="}
  THEN \/ isNumericTy(t1) /\ isNumericTy(t2)
       \/ isPrimitiveTy(t1) /\ t1 = t2
  ELSE isNumericTy(t1) /\ isNumericTy(t2)

\* The types a never written decoration may read as.
DefaultTypeIds ==
  {createErrorTy, createVoidTy, createIntegerTy, createFloatTy,
   createBooleanTy, createCharacterTy}

(***************************************************************************)
(* Symbol table: scopes[id + 1] is the scope with id `id`; a scope is its  *)
(* name and its symbols in order of declaration; stack holds scope ids,   *)
(* the current scope last.                                                 *)
(***************************************************************************)
GLOBAL_SCOPE_NAME == "$global$"

EmptySymTable == [scopes |-> <<>>, stack |-> <<>>]

pushNewScope(st, name) ==
  [scopes |-> Append(st.scopes, [name |-> name, syms |-> <<>>]),
   stack |-> Append(st.stack, Len(st.scopes))]
pushThisScope(st, sc) == [st EXCEPT !.stack = Append(@, sc)]
popScope(st) == [st EXCEPT !.stack = SubSeq(@, 1, Len(@) - 1)]
currentScope(st) == st.stack[Len(st.stack)]

SymsOf(st, sc) == st.scopes[sc + 1].syms
HasSym(st, sc, name) == \E i \in DOMAIN SymsOf(st, sc) : SymsOf(st, sc)[i].name = name
\* the first symbol of that name in the scope
SymIn(st, sc, name) ==
  LET syms == SymsOf(st, sc)
      i == CHOOSE i \in DOMAIN syms :
             /\ syms[i].name = name
             /\ \A j \in 1..(i - 1) : syms[j].name # name
  IN syms[i]

addSymbol(st, name, cls, t) ==
  [st EXCEPT !.scopes[currentScope(st) + 1].syms =
     Append(@, [name |-> name, cls |-> cls, ty |-> t])]
addLocalVar(st, name, t) == addSymbol(st, name, "LocalVar", t)
addParameter(st, name, t) == addSymbol(st, name, "Parameter", t)
addFunction(st, name, t) == addSymbol(st, name, "Function", t)

findInCurrentScope(st, name) == HasSym(st, currentScope(st), name)

\* the innermost scope of the stack that declares name, or -1
findInStack(st, name) ==
  LET hits == {i \in DOMAIN st.stack : HasSym(st, st.stack[i], name)}
  IN IF hits = {} THEN -1
     ELSE st.stack[CHOOSE i \in hits : \A j \in hits : j <= i]

Lookup(st, name) == SymIn(st, findInStack(st, name), name)
getType(st, name) == Lookup(st, name).ty
isFunctionClass(st, name) ==
  findInStack(st, name) # -1 /\ Lookup(st, name).cls = "Function"
isParameterClass(st, name) ==
  findInStack(st, name) # -1 /\ Lookup(st, name).cls = "Parameter"
isLocalVarClass(st, name) ==
  findInStack(st, name) # -1 /\ Lookup(st, name).cls = "LocalVar"

noMainProperlyDeclared(st) ==
  LET sc == currentScope(st)
  IN ~ /\ HasSym(st, sc, "main")
       /\ SymIn(st, sc, "main").cls = "Function"
       /\ SymIn(st, sc, "main").ty = createFunctionTy(<<>>, createVoidTy)

(***************************************************************************)
(* Tree decorations and the error sink.  A node is named by its path from  *)
(* the program node: <<f>> is function f, <<f, 0>> its return basic_type,  *)
(* <<f, 1, j>> its parameter j, <<f, 2, j>> its variable_decl j and        *)
(* <<f, 3, k>> its statement k; below that a path follows the children.    *)
(***************************************************************************)
EmptyDecorations == [scope |-> <<>>, type |-> <<>>, isLValue |-> <<>>]

putScopeDecor(D, p, sc) == [D EXCEPT !.scope = (p :> sc) @@ @]
putTypeDecor(D, p, t) == [D EXCEPT !.type = (p :> t) @@ @]
putIsLValueDecor(D, p, b) == [D EXCEPT !.isLValue = (p :> b) @@ @]
hasType(D, p) == p \in DOMAIN D.type
hasIsLValue(D, p) == p \in DOMAIN D.isLValue
\* d is what the table yields for a node whose type was never written
getTypeDecor(D, p, d) == IF hasType(D, p) THEN D.type[p] ELSE d
getIsLValueDecor(D, p) == IF hasIsLValue(D, p) THEN D.isLValue[p] ELSE FALSE
getScopeDecor(D, p) == D.scope[p]

EmptyErrors == [list |-> <<>>, printed |-> <<>>]
Err(kind, p) == [kind |-> kind, at |-> p]
\* errors are kept in order of emission, one per (kind, location)
addError(el, kind, p) ==
  IF Err(kind, p) \in Range(el) THEN el ELSE Append(el, Err(kind, p))
print(E) == [E EXCEPT !.printed = Append(@, E.list)]

(***************************************************************************)
(* Syntax tree constructors.                                               *)
(***************************************************************************)
\* a type node: array[size] of basic, matrix[size, cols] of basic, or basic
TypeNode(arr, size, basic) ==
  [arr |-> arr, mat |-> FALSE, size |-> size, cols |-> 0, basic |-> basic]
Basic(b) == TypeNode(FALSE, 0, b)
ArrayOf(n, b) == TypeNode(TRUE, n, b)
MatrixOf(rows, cols, b) ==
  [arr |-> FALSE, mat |-> TRUE, size |-> rows, cols |-> cols, basic |-> b]
Param(name, type) == [name |-> name, type |-> type]
VarDecl(type, ids) == [type |-> type, ids |-> ids]
Func(name, params, ret, decls, stmts) ==
  [name |-> name, params |-> params, ret |-> ret, decls |-> decls, stmts |-> stmts]

Node(k, s, c) == [k |-> k, s |-> s, c |-> c]
Ident(name) == Node("Ident", name, <<>>)
Value(text) == Node("Value", text, <<>>)
ExprIdent(name) == Node("ExprIdent", "", <<Ident(name)>>)
Parenthesis(e) == Node("Parenthesis", "", <<e>>)
Unary(op, e) == Node("Unary", op, <<e>>)
Arithmetic(op, e1, e2) == Node("Arithmetic", op, <<e1, e2>>)
Relational(op, e1, e2) == Node("Relational", op, <<e1, e2>>)
Logical(op, e1, e2) == Node("Logical", op, <<e1, e2>>)
ArrayAccess(name, e) == Node("ArrayAccess", "", <<Ident(name), e>>)
Factorial(e) == Node("Factorial", "!", <<e>>)
Potencia(e1, e2) == Node("Potencia", "**", <<e1, e2>>)
Function_call(name, args) == Node("Function_call", "", <<Ident(name)>> \o args)
ExprFunc(name, args) == Node("ExprFunc", "", <<Function_call(name, args)>>)
LeftIdent(name) == Node("Left_expr", "", <<Ident(name)>>)
LeftIndex(name, e) == Node("Left_expr", "", <<Ident(name), e>>)
Statements(ss) == Node("Statements", "", ss)
AssignStmt(l, e) == Node("AssignStmt", "", <<l, e>>)
IfStmt(e, th) == Node("IfStmt", "", <<e, Statements(th)>>)
IfElseStmt(e, th, el) == Node("IfStmt", "", <<e, Statements(th), Statements(el)>>)
WhileStmt(e, body) == Node("WhileStmt", "", <<e, Statements(body)>>)
ProcCall(name, args) == Node("ProcCall", "", <<Function_call(name, args)>>)
\* map a into b using f
Map(a, b, f) == Node("Map", "", <<Ident(a), Ident(b), Ident(f)>>)
ReadStmt(l) == Node("ReadStmt", "", <<l>>)
WriteExpr(e) == Node("WriteExpr", "", <<e>>)
WriteString(s) == Node("WriteString", s, <<>>)
ReturnStmt == Node("ReturnStmt", "", <<>>)
ReturnExpr(e) == Node("ReturnStmt", "", <<e>>)

\* the lexer's classes of literals, by the characters of the text: INTVAL
\* is digits, FLOATVAL digits '.' digits, CHARVAL one character in quotes
DigitChars == {"0", "1", "2", "3", "4", "5", "6", "7", "8", "9"}
charAt(s, i) == SubSeq(s, i, i)
allDigits(s, i, j) == i <= j /\ \A k \in i..j : charAt(s, k) \in DigitChars
INTVAL == {s \in STRING : allDigits(s, 1, Len(s))}
FLOATVAL ==
  {s \in STRING : \E d \in 2..(Len(s) - 1) :
     charAt(s, d) = "." /\ allDigits(s, 1, d - 1) /\ allDigits(s, d + 1, Len(s))}
BOOLVAL == {"true", "false"}
CHARVAL == {s \in STRING : Len(s) = 3 /\ charAt(s, 1) = "'" /\ charAt(s, 3) = "'"}

(***************************************************************************)
(* Symbols pass (SymbolsVisitor).  A visitor takes and returns the shared  *)
(* state W = [sym, dec, err]: symbol table, decorations, list of errors.   *)
(***************************************************************************)
World(st, D, el) == [sym |-> st, dec |-> D, err |-> el]

Symbols_visitBasic_type(D, b, p) ==
  IF b = "int" THEN putTypeDecor(D, p, createIntegerTy)
  ELSE IF b = "float" THEN putTypeDecor(D, p, createFloatTy)
  ELSE IF b = "bool" THEN putTypeDecor(D, p, createBooleanTy)
  ELSE IF b = "char" THEN putTypeDecor(D, p, createCharacterTy)
  ELSE D

\* the type node at p has its basic_type at p \o <<1>>
Symbols_visitType(D, tn, p, d) ==
  LET D1 == Symbols_visitBasic_type(D, tn.basic, p \o <<1>>)
      tElem == getTypeDecor(D1, p \o <<1>>, d)
  IN IF tn.arr
     THEN putTypeDecor(D1, p, createArrayTy(tn.size, tElem))
     ELSE IF tn.mat
     THEN putTypeDecor(D1, p, createMatrixTy(tn.size, tn.cols, tElem))
     ELSE putTypeDecor(D1, p, tElem)

\* visitParameter without the look-up in the current scope
Symbols_visitParameter_unchecked(W, prm, p, d) ==
  LET D1 == Symbols_visitType(W.dec, prm.type, p \o <<1>>, d)
      t1 == getTypeDecor(D1, p \o <<1>>, d)
  IN World(addParameter(W.sym, prm.name, t1), putTypeDecor(D1, p, t1), W.err)

\* the parameter node at p has its type node at p \o <<1>>
Symbols_visitParameter(W, prm, p, d) ==
  IF findInCurrentScope(W.sym, prm.name)
  THEN [W EXCEPT !.err = addError(@, "DeclaredIdent", p)]
  ELSE LET D1 == Symbols_visitType(W.dec, prm.type, p \o <<1>>, d)
           t1 == getTypeDecor(D1, p \o <<1>>, d)
       IN World(addParameter(W.sym, prm.name, t1), putTypeDecor(D1, p, t1), W.err)

\* the loop over the identifiers of a variable_decl, from identifier i on
RECURSIVE Symbols_declareIds(_, _, _, _, _)
Symbols_declareIds(W, ids, i, t1, p) ==
  IF i > Len(ids) THEN W
  ELSE Symbols_declareIds(
         IF findInCurrentScope(W.sym, ids[i])
         THEN [W EXCEPT !.err = addError(@, "DeclaredIdent", p \o <<2, i>>)]
         ELSE [W EXCEPT !.sym = addLocalVar(@, ids[i], t1)],
         ids, i + 1, t1, p)

\* the variable_decl node at p has its type node at p \o <<1>>
Symbols_visitVariable_decl(W, vd, p, d) ==
  LET D1 == Symbols_visitType(W.dec, vd.type, p \o <<1>>, d)
      t1 == getTypeDecor(D1, p \o <<1>>, d)
  IN Symbols_declareIds([W EXCEPT !.dec = D1], vd.ids, 1, t1, p)

\* visitFunction adding the function symbol before it pops the function's scope
Symbols_visitFunction_end_early(W, fn, f, lParams, d) ==
  IF findInCurrentScope(W.sym, fn.name)
  THEN World(popScope(W.sym), W.dec, addError(W.err, "DeclaredIdent", <<f>>))
  ELSE LET D1 == IF fn.ret # ""
                 THEN Symbols_visitBasic_type(W.dec, fn.ret, <<f, 0>>)
                 ELSE W.dec
           tRet == IF fn.ret # "" THEN getTypeDecor(D1, <<f, 0>>, d)
                   ELSE createVoidTy
           tFunc == createFunctionTy(lParams, tRet)
       IN World(popScope(addFunction(W.sym, fn.name, tFunc)),
                putTypeDecor(D1, <<f>>, tFunc), W.err)

\* visitFunction from the pop of the function's scope to its end
Symbols_visitFunction_end(W, fn, f, lParams, d) ==
  LET st1 == popScope(W.sym)
  IN IF findInCurrentScope(st1, fn.name)
     THEN World(st1, W.dec, addError(W.err, "DeclaredIdent", <<f>>))
     ELSE LET D1 == IF fn.ret # ""
                    THEN Symbols_visitBasic_type(W.dec, fn.ret, <<f, 0>>)
                    ELSE W.dec
              tRet == IF fn.ret # "" THEN getTypeDecor(D1, <<f, 0>>, d)
                      ELSE createVoidTy
              tFunc == createFunctionTy(lParams, tRet)
          IN World(addFunction(st1, fn.name, tFunc), putTypeDecor(D1, <<f>>, tFunc), W.err)

(***************************************************************************)
(* Type-check pass (TypeCheckVisitor).  A visitor takes and returns        *)
(* T = [dec, err, vis, rdT, rdL, d, crash, g, fault, oob]: the              *)
(* decorations, the list of errors, the expression, left-expression and    *)
(* function_call nodes visited, the nodes whose type and isLValue          *)
(* decorations were read, what a never written type reads as, whether the  *)
(* walk dereferenced a missing child, what each read past the end of a     *)
(* parameter list yields (g[k] for the k-th such read), which of them      *)
(* faults (fault, 0 for none), and how many such reads happened (oob).     *)
(* v is the build: "examen" or "practica".  The visitors read the symbol   *)
(* table and the current function type from the state.                     *)
(***************************************************************************)
TCState(D, el, tr, d) ==
  [dec |-> D, err |-> el, vis |-> tr.vis, again |-> tr.again, rdT |-> tr.rdT,
   rdL |-> tr.rdL, d |-> d, crash |-> FALSE, g |-> <<>>, fault |-> 0, oob |-> 0]

\* what the k-th read past the end of a parameter list yields
strayAt(S, k) == IF k \in DOMAIN S.g THEN S.g[k] ELSE createErrorTy

\* once the walk has crashed nothing more is written or read
emit(T, cond, kind, p) ==
  IF cond /\ ~T.crash THEN [T EXCEPT !.err = addError(@, kind, p)] ELSE T
decorate(T, p, t, b) ==
  IF T.crash THEN T
  ELSE [T EXCEPT !.dec = putIsLValueDecor(putTypeDecor(@, p, t), p, b)]
typeOf(T, p) == getTypeDecor(T.dec, p, T.d)
readT(T, ps) == IF T.crash THEN T ELSE [T EXCEPT !.rdT = @ \cup ps]
readL(T, ps) == IF T.crash THEN T ELSE [T EXCEPT !.rdL = @ \cup ps]

DecoratedKinds ==
  {"Parenthesis", "ExprFunc", "Unary", "Arithmetic", "Relational", "Logical",
   "ArrayAccess", "Value", "ExprIdent", "Factorial", "Potencia", "Left_expr",
   "Function_call"}

RECURSIVE visit(_, _, _, _)

\* visitChildren: the children from child i on, in order
RECURSIVE visitChildren(_, _, _, _, _)
visitChildren(v, T, e, p, i) ==
  IF i > Len(e.c) THEN T
  ELSE visitChildren(v, visit(v, T, e.c[i], p \o <<i>>), e, p, i + 1)

TypeCheck_visitAssignStmt(v, T, e, p) ==
  LET T1 == visit(v, T, e.c[1], p \o <<1>>)
      t1 == typeOf(T1, p \o <<1>>)
      T2 == visit(v, T1, e.c[2], p \o <<2>>)
      t2 == typeOf(T2, p \o <<2>>)
      T3 == emit(T2, ~isErrorTy(t1) /\ ~isErrorTy(t2) /\ ~copyableTypes(t1, t2),
                 "IncompatibleAssignment", p)
      T4 == emit(T3, ~isErrorTy(t1) /\ ~getIsLValueDecor(T2.dec, p \o <<1>>),
                 "NonReferenceableLeftExpr", p \o <<1>>)
  IN readL(readT(T4, {p \o <<1>>, p \o <<2>>}),
           IF isErrorTy(t1) THEN {} ELSE {p \o <<1>>})

TypeCheck_visitIfStmt(v, T, e, p) ==
  LET T1 == visit(v, T, e.c[1], p \o <<1>>)
      t1 == typeOf(T1, p \o <<1>>)
      T2 == emit(T1, ~isErrorTy(t1) /\ ~isBooleanTy(t1), "BooleanRequired", p)
      T3 == visit(v, readT(T2, {p \o <<1>>}), e.c[2], p \o <<2>>)
  IN IF Len(e.c) > 2 THEN visit(v, T3, e.c[3], p \o <<3>>) ELSE T3

TypeCheck_visitWhileStmt(v, T, e, p) ==
  LET T1 == visit(v, T, e.c[1], p \o <<1>>)
      t1 == typeOf(T1, p \o <<1>>)
      T2 == emit(T1, ~isErrorTy(t1) /\ ~isBooleanTy(t1), "BooleanRequired", p)
  IN visit(v, readT(T2, {p \o <<1>>}), e.c[2], p \o <<2>>)

TypeCheck_visitReadStmt(v, T, e, p) ==
  LET T1 == visit(v, T, e.c[1], p \o <<1>>)
      t1 == typeOf(T1, p \o <<1>>)
      T2 == emit(T1, ~isErrorTy(t1) /\ ~isPrimitiveTy(t1) /\ ~isFunctionTy(t1),
                 "ReadWriteRequireBasic", p)
      T3 == emit(T2, ~isErrorTy(t1) /\ ~getIsLValueDecor(T1.dec, p \o <<1>>),
                 "NonReferenceableExpression", p)
  IN readL(readT(T3, {p \o <<1>>}), IF isErrorTy(t1) THEN {} ELSE {p \o <<1>>})

TypeCheck_visitWriteExpr(v, T, e, p) ==
  LET T1 == visit(v, T, e.c[1], p \o <<1>>)
      t1 == typeOf(T1, p \o <<1>>)
      T2 == emit(T1, ~isErrorTy(t1) /\ ~isPrimitiveTy(t1), "ReadWriteRequireBasic", p)
  IN readT(T2, {p \o <<1>>})

TypeCheck_visitReturnStmt(v, T, e, p) ==
  LET T1 == IF Len(e.c) > 0 THEN visit(v, T, e.c[1], p \o <<1>>) ELSE T
      t1 == IF Len(e.c) > 0 THEN typeOf(T1, p \o <<1>>) ELSE createVoidTy
      t2 == currFunctionType
      ret == getFuncReturnType(t2)
      T2 == emit(T1, ~isErrorTy(t2) /\ ~copyableTypes(ret, t1), "IncompatibleReturn", p)
  IN readT(T2, IF Len(e.c) > 0 THEN {p \o <<1>>} ELSE {})

TypeCheckLab_visitReturnStmt(v, T, e, p) ==
  LET T1 == IF Len(e.c) > 0 THEN visit(v, T, e.c[1], p \o <<1>>) ELSE T
      t1 == IF Len(e.c) > 0 THEN typeOf(T1, p \o <<1>>) ELSE createVoidTy
      t2 == currFunctionType
      ret == getFuncReturnType(t2)
      T2 == emit(T1, ~isErrorTy(t2) /\ ~copyableTypes(t1, ret), "IncompatibleReturn", p)
  IN readT(T2, IF Len(e.c) > 0 THEN {p \o <<1>>} ELSE {})

\* the ident is child 1 and the index expression, when present, child 2
\* visitLeft_expr giving the access to a non-array the type of what it indexes
TypeCheck_visitLeft_expr_keeping(v, T, e, p) ==
  LET T1 == visit(v, T, e.c[1], p \o <<1>>)
      t1 == typeOf(T1, p \o <<1>>)
  IN IF Len(e.c) > 1
     THEN LET T2 == emit(T1, ~isErrorTy(t1) /\ ~isArrayTy(t1), "NonArrayInArrayAccess", p)
              T3 == visit(v, T2, e.c[2], p \o <<2>>)
              t2 == typeOf(T3, p \o <<2>>)
              T4 == emit(T3, ~isErrorTy(t2) /\ ~isIntegerTy(t2),
                         "NonIntegerIndexInArrayAccess", p \o <<2>>)
              t3 == IF isArrayTy(t1) THEN getArrayElemType(t1) ELSE t1
          IN decorate(readT(T4, {p \o <<1>>, p \o <<2>>}), p, t3, isArrayTy(t1))
     ELSE decorate(readL(readT(T1, {p \o <<1>>}), {p \o <<1>>}), p, t1,
                   getIsLValueDecor(T1.dec, p \o <<1>>))

TypeCheck_visitLeft_expr(v, T, e, p) ==
  LET T1 == visit(v, T, e.c[1], p \o <<1>>)
      t1 == typeOf(T1, p \o <<1>>)
  IN IF Len(e.c) > 1
     THEN LET T2 == emit(T1, ~isErrorTy(t1) /\ ~isArrayTy(t1), "NonArrayInArrayAccess", p)
              T3 == visit(v, T2, e.c[2], p \o <<2>>)
              t2 == typeOf(T3, p \o <<2>>)
              T4 == emit(T3, ~isErrorTy(t2) /\ ~isIntegerTy(t2),
                         "NonIntegerIndexInArrayAccess", p \o <<2>>)
              t3 == IF isArrayTy(t1) THEN getArrayElemType(t1) ELSE createErrorTy
          IN decorate(readT(T4, {p \o <<1>>, p \o <<2>>}), p, t3, isArrayTy(t1))
     ELSE decorate(readL(readT(T1, {p \o <<1>>}), {p \o <<1>>}), p, t1,
                   getIsLValueDecor(T1.dec, p \o <<1>>))

TypeCheck_visitArrayAccess(v, T, e, p) == TypeCheck_visitLeft_expr(v, T, e, p)

TypeCheck_visitParenthesis(v, T, e, p) ==
  LET T1 == visit(v, T, e.c[1], p \o <<1>>)
  IN decorate(readT(T1, {p \o <<1>>}), p, typeOf(T1, p \o <<1>>), FALSE)

TypeCheck_visitExprFunc(v, T, e, p) ==
  LET T1 == visit(v, T, e.c[1], p \o <<1>>)
      tFunc == typeOf(T1, p \o <<1>>)
      b == getIsLValueDecor(T1.dec, p \o <<1>>)
      T2 == readL(readT(T1, {p \o <<1>>}), {p \o <<1>>})
  IN IF isVoidTy(tFunc)
     THEN decorate(emit(T2, TRUE, "IsNotFunction", p \o <<1>>), p, createErrorTy, FALSE)
     ELSE decorate(T2, p, tFunc, b)

TypeCheck_visitUnary(v, T, e, p) ==
  LET T1 == visit(v, T, e.c[1], p \o <<1>>)
      t1 == typeOf(T1, p \o <<1>>)
      T2 == readT(T1, {p \o <<1>>})
  IN IF e.s = "not"
     THEN decorate(emit(T2, ~isErrorTy(t1) /\ ~isBooleanTy(t1), "IncompatibleOperator", p),
                   p, createBooleanTy, FALSE)
     ELSE decorate(emit(T2, ~isErrorTy(t1) /\ ~isNumericTy(t1), "IncompatibleOperator", p),
                   p, IF isFloatTy(t1) THEN createFloatTy ELSE createIntegerTy, FALSE)

TypeCheckLab_visitUnary(v, T, e, p) ==
  LET T1 == visit(v, T, e.c[1], p \o <<1>>)
      t1 == typeOf(T1, p \o <<1>>)
      T2 == readT(T1, {p \o <<1>>})
  IN IF e.s = "not"
     THEN decorate(emit(T2, ~isErrorTy(t1) /\ ~isBooleanTy(t1), "IncompatibleOperator", p),
                   p, t1, FALSE)
     ELSE decorate(emit(T2, ~isErrorTy(t1) /\ ~isNumericTy(t1), "IncompatibleOperator", p),
                   p, t1, FALSE)

getTypeCoercion(t1, t2) ==
  IF isFloatTy(t1) \/ isFloatTy(t2) THEN createFloatTy ELSE createIntegerTy

\* visitArithmetic giving `%` the coerced type of its operands
TypeCheck_visitArithmetic_coercing(v, T, e, p) ==
  LET T1 == visit(v, T, e.c[1], p \o <<1>>)
      t1 == typeOf(T1, p \o <<1>>)
      T2 == visit(v, readT(T1, {p \o <<1>>}), e.c[2], p \o <<2>>)
      t2 == typeOf(T2, p \o <<2>>)
      T3 == readT(T2, {p \o <<1>>, p \o <<2>>})
      accepts(t) == IF e.s = "%" THEN isIntegerTy(t) ELSE isNumericTy(t)
  IN decorate(emit(T3, \/ ~isErrorTy(t1) /\ ~accepts(t1)
                       \/ ~isErrorTy(t2) /\ ~accepts(t2),
                   "IncompatibleOperator", p),
              p, getTypeCoercion(t1, t2), FALSE)

TypeCheck_visitArithmetic(v, T, e, p) ==
  LET T1 == visit(v, T, e.c[1], p \o <<1>>)
      t1 == typeOf(T1, p \o <<1>>)
      T2 == visit(v, readT(T1, {p \o <<1>>}), e.c[2], p \o <<2>>)
      t2 == typeOf(T2, p \o <<2>>)
      T3 == readT(T2, {p \o <<1>>, p \o <<2>>})
  IN IF e.s = "%"
     THEN decorate(emit(T3, \/ ~isErrorTy(t1) /\ ~isIntegerTy(t1)
                            \/ ~isErrorTy(t2) /\ ~isIntegerTy(t2),
                        "IncompatibleOperator", p),
                   p, createIntegerTy, FALSE)
     ELSE decorate(emit(T3, \/ ~isErrorTy(t1) /\ ~isNumericTy(t1)
                            \/ ~isErrorTy(t2) /\ ~isNumericTy(t2),
                        "IncompatibleOperator", p),
                   p, getTypeCoercion(t1, t2), FALSE)

TypeCheckLab_visitArithmetic(v, T, e, p) ==
  LET T1 == visit(v, T, e.c[1], p \o <<1>>)
      t1 == typeOf(T1, p \o <<1>>)
      T2 == visit(v, readT(T1, {p \o <<1>>}), e.c[2], p \o <<2>>)
      t2 == typeOf(T2, p \o <<2>>)
      T3 == readT(T2, {p \o <<1>>, p \o <<2>>})
  IN decorate(emit(T3, \/ ~isErrorTy(t1) /\ ~isNumericTy(t1)
                       \/ ~isErrorTy(t2) /\ ~isNumericTy(t2),
                   "IncompatibleOperator", p),
              p, getTypeCoercion(t1, t2), FALSE)

TypeCheck_visitRelational(v, T, e, p) ==
  LET T1 == visit(v, T, e.c[1], p \o <<1>>)
      t1 == typeOf(T1, p \o <<1>>)
      T2 == visit(v, readT(T1, {p \o <<1>>}), e.c[2], p \o <<2>>)
      t2 == typeOf(T2, p \o <<2>>)
      T3 == emit(T2, ~isErrorTy(t1) /\ ~isErrorTy(t2) /\ ~comparableTypes(t1, t2, e.s),
                 "IncompatibleOperator", p)
  IN decorate(readT(T3, {p \o <<1>>, p \o <<2>>}), p, createBooleanTy, FALSE)

TypeCheck_visitLogical(v, T, e, p) ==
  LET T1 == visit(v, T, e.c[1], p \o <<1>>)
      t1 == typeOf(T1, p \o <<1>>)
      T2 == visit(v, readT(T1, {p \o <<1>>}), e.c[2], p \o <<2>>)
      t2 == typeOf(T2, p \o <<2>>)
      T3 == emit(T2, \/ ~isErrorTy(t1) /\ ~isBooleanTy(t1)
                     \/ ~isErrorTy(t2) /\ ~isBooleanTy(t2),
                 "IncompatibleOperator", p)
  IN decorate(readT(T3, {p \o <<1>>, p \o <<2>>}), p, createBooleanTy, FALSE)

TypeCheck_visitValue(v, T, e, p) ==
  LET D1 == IF e.s \in INTVAL THEN putTypeDecor(T.dec, p, createIntegerTy)
            ELSE IF e.s \in FLOATVAL THEN putTypeDecor(T.dec, p, createFloatTy)
            ELSE IF e.s \in BOOLVAL THEN putTypeDecor(T.dec, p, createBooleanTy)
            ELSE IF e.s \in CHARVAL THEN putTypeDecor(T.dec, p, createCharacterTy)
            ELSE T.dec
  IN [T EXCEPT !.dec = putIsLValueDecor(D1, p, FALSE)]

TypeCheck_visitExprIdent(v, T, e, p) ==
  LET T1 == visit(v, T, e.c[1], p \o <<1>>)
  IN decorate(readL(readT(T1, {p \o <<1>>}), {p \o <<1>>}), p,
              typeOf(T1, p \o <<1>>), getIsLValueDecor(T1.dec, p \o <<1>>))

\* visitIdent decorating an undeclared identifier as not referenceable
TypeCheck_visitIdent_rvalue(v, T, e, p) ==
  IF findInStack(Symbols, e.s) = -1
  THEN decorate(emit(T, TRUE, "UndeclaredIdent", p), p, createErrorTy, FALSE)
  ELSE decorate(T, p, getType(Symbols, e.s), ~isFunctionClass(Symbols, e.s))

TypeCheck_visitIdent(v, T, e, p) ==
  IF findInStack(Symbols, e.s) = -1
  THEN decorate(emit(T, TRUE, "UndeclaredIdent", p), p, createErrorTy, TRUE)
  ELSE decorate(T, p, getType(Symbols, e.s), ~isFunctionClass(Symbols, e.s))

\* the arguments of a call, children 2.. of the function_call, from child i on
RECURSIVE TypeCheck_checkArgs(_, _, _, _, _)
TypeCheck_checkArgs(T, e, p, tFunc, i) ==
  IF i > Len(e.c) THEN T
  ELSE LET tExpr == typeOf(T, p \o <<i>>)
           tArg == getParameterType(tFunc, i - 1)
       IN TypeCheck_checkArgs(
            emit(readT(T, {p \o <<i>>}),
                 ~isErrorTy(tExpr) /\ ~copyableTypes(tArg, tExpr),
                 "IncompatibleParameter", p \o <<i>>),
            e, p, tFunc, i + 1)

\* visitFunction_call visiting the arguments of a function callee only
TypeCheck_visitFunction_call_lazy(v, T, e, p) ==
  LET T1 == visit(v, T, e.c[1], p \o <<1>>)
      tFunc == typeOf(T1, p \o <<1>>)
      T2 == emit(readT(T1, {p \o <<1>>}), ~isFunctionTy(tFunc) /\ ~isErrorTy(tFunc),
                 "IsNotCallable", p \o <<1>>)
      numOfExpr == Len(e.c) - 1
      T4 == IF isFunctionTy(tFunc) /\ ~isErrorTy(tFunc)
            THEN LET T3 == visitChildren(v, T2, e, p, 2)
                     T5 == [T3 EXCEPT !.dec = putTypeDecor(@, p, getFuncReturnType(tFunc))]
                 IN IF numOfExpr # getNumOfParameters(tFunc)
                    THEN emit(T5, TRUE, "NumberOfParameters", p \o <<1>>)
                    ELSE TypeCheck_checkArgs(T5, e, p, tFunc, 2)
            ELSE T2
  IN [readL(T4, {p \o <<1>>}) EXCEPT
        !.dec = putIsLValueDecor(@, p, getIsLValueDecor(T1.dec, p \o <<1>>))]

TypeCheck_visitFunction_call(v, T, e, p) ==
  LET T1 == visit(v, T, e.c[1], p \o <<1>>)
      tFunc == typeOf(T1, p \o <<1>>)
      T2 == emit(readT(T1, {p \o <<1>>}), ~isFunctionTy(tFunc) /\ ~isErrorTy(tFunc),
                 "IsNotCallable", p \o <<1>>)
      T3 == visitChildren(v, T2, e, p, 2)
      numOfExpr == Len(e.c) - 1
      T4 == IF isFunctionTy(tFunc) /\ ~isErrorTy(tFunc)
            THEN LET T5 == [T3 EXCEPT !.dec = putTypeDecor(@, p, getFuncReturnType(tFunc))]
                 IN IF numOfExpr # getNumOfParameters(tFunc)
                    THEN emit(T5, TRUE, "NumberOfParameters", p \o <<1>>)
                    ELSE TypeCheck_checkArgs(T5, e, p, tFunc, 2)
            ELSE T3
  IN [readL(T4, {p \o <<1>>}) EXCEPT
        !.dec = putIsLValueDecor(@, p, getIsLValueDecor(T1.dec, p \o <<1>>))]

\* visits the first n arguments; a missing argument is a null child
RECURSIVE TypeCheckLab_visitArgs(_, _, _, _, _, _)
TypeCheckLab_visitArgs(v, T, e, p, i, n) ==
  IF i > n + 1 THEN T
  ELSE IF i > Len(e.c) THEN [T EXCEPT !.crash = TRUE]
  ELSE TypeCheckLab_visitArgs(v, visit(v, T, e.c[i], p \o <<i>>), e, p, i + 1, n)

TypeCheckLab_visitFunction_call(v, T, e, p) ==
  LET T1 == visit(v, T, e.c[1], p \o <<1>>)
      tFunc == typeOf(T1, p \o <<1>>)
      T2 == emit(readT(T1, {p \o <<1>>}), ~isFunctionTy(tFunc) /\ ~isErrorTy(tFunc),
                 "IsNotCallable", p \o <<1>>)
  IN IF isFunctionTy(tFunc) /\ ~isErrorTy(tFunc)
     THEN TypeCheckLab_visitArgs(
            v,
            readL(decorate(T2, p, getFuncReturnType(tFunc),
                           getIsLValueDecor(T1.dec, p \o <<1>>)), {p \o <<1>>}),
            e, p, 2, getNumOfParameters(tFunc))
     ELSE T2

\* practica grammar: the array node (ident, index) below an array access
TypeCheckLab_visitArray(v, T, e, p) ==
  LET T1 == visit(v, T, e.c[1], p \o <<1>>)
      t1 == typeOf(T1, p \o <<1>>)
      T2 == emit(T1, ~isErrorTy(t1) /\ ~isArrayTy(t1), "NonArrayInArrayAccess", p)
      T3 == visit(v, readT(T2, {p \o <<1>>}), e.c[2], p \o <<2>>)
      t2 == typeOf(T3, p \o <<2>>)
      T4 == emit(T3, ~isErrorTy(t2) /\ ~isIntegerTy(t2),
                 "NonIntegerIndexInArrayAccess", p \o <<2>>)
      t3 == IF isArrayTy(t1) THEN getArrayElemType(t1) ELSE createErrorTy
  IN decorate(readT(T4, {p \o <<1>>, p \o <<2>>}), p, t3, isArrayTy(t1))

\* practica grammar: LeftArrayAccess and ArrayAccess copy their array child
TypeCheckLab_visitArrayAccess(v, T, e, p) ==
  LET T1 == TypeCheckLab_visitArray(v, [T EXCEPT !.vis = @ \cup {p \o <<1>>}], e, p \o <<1>>)
  IN decorate(readL(readT(T1, {p \o <<1>>}), {p \o <<1>>}), p,
              typeOf(T1, p \o <<1>>), getIsLValueDecor(T1.dec, p \o <<1>>))

\* practica grammar: LeftExprIdent, or LeftArrayAccess when indexed
TypeCheckLab_visitLeft_expr(v, T, e, p) ==
  IF Len(e.c) > 1 THEN TypeCheckLab_visitArrayAccess(v, T, e, p)
  ELSE TypeCheck_visitExprIdent(v, T, e, p)

TypeCheck_visitPotencia(v, T, e, p) ==
  LET T1 == visit(v, T, e.c[1], p \o <<1>>)
      t1 == typeOf(T1, p \o <<1>>)
      T2 == visit(v, readT(T1, {p \o <<1>>}), e.c[2], p \o <<2>>)
      t2 == typeOf(T2, p \o <<2>>)
      T3 == emit(readT(T2, {p \o <<2>>}),
                 \/ ~isErrorTy(t1) /\ ~isNumericTy(t1)
                 \/ ~isErrorTy(t2) /\ ~isIntegerTy(t2),
                 "IncompatibleOperator", p)
  IN decorate(T3, p, createFloatTy, FALSE)

\* map a into b using f: the three idents are children 1, 2 and 3.  The type
\* of parameter 0 of a function without parameters is a read past the end
\* of its parameter list and yields any type
TypeCheck_visitMap(v, T, e, p) ==
  LET T1 == readT(visit(v, T, e.c[1], p \o <<1>>), {p \o <<1>>})
      t1 == typeOf(T1, p \o <<1>>)
      T2 == readT(visit(v, T1, e.c[2], p \o <<2>>), {p \o <<2>>})
      t2 == typeOf(T2, p \o <<2>>)
      T3 == readT(visit(v, T2, e.c[3], p \o <<3>>), {p \o <<3>>})
      t3 == typeOf(T3, p \o <<3>>)
      \* the operands of `or` before the one that reads parameter 0
      earlier ==
        \/ ~isErrorTy(t1) /\ ~isArrayTy(t1)
        \/ ~isErrorTy(t2) /\ ~isArrayTy(t2)
        \/ ~isErrorTy(t1) /\ ~isErrorTy(t2) /\ getArraySize(t1) # getArraySize(t2)
        \/ ~isErrorTy(t3) /\ ~isFunctionTy(t3)
      readsParam0 ==
        /\ ~earlier /\ ~isErrorTy(t1) /\ ~isErrorTy(t3)
        /\ isFunctionTy(t3) /\ isArrayTy(t1)
      \* getParameterType(t3, 0) of a function without parameters reads past
      \* the end of the list: any type, or a fault
      stray == readsParam0 /\ getNumOfParameters(t3) = 0 /\ ~T3.crash
      k == T3.oob + 1
      param0 == IF stray THEN strayAt(T3, k) ELSE getParameterType(t3, 1)
      T4 == IF stray THEN [T3 EXCEPT !.oob = k] ELSE T3
  IN IF stray /\ T3.fault = k THEN [T4 EXCEPT !.crash = TRUE]
     ELSE emit(T4,
               \/ earlier
               \/ readsParam0 /\ ~copyableTypes(param0, getArrayElemType(t1))
               \/ /\ ~isErrorTy(t2) /\ ~isErrorTy(t3)
                  /\ isArrayTy(t2)
                  /\ ~copyableTypes(getArrayElemType(t2), getFuncReturnType(t3)),
               "IncompatibleMapOperands", p)

\* the dispatch of the visitor; a node kind without a visit method of its
\* own gets the base visitor's visitChildren
visit(v, T, e, p) ==
  LET T0 == IF e.k \in DecoratedKinds
            THEN [T EXCEPT !.vis = @ \cup {p},
                           !.again = IF p \in T.vis THEN @ \cup {p} ELSE @]
            ELSE T
      x == v = "examen"
  IN IF T.crash THEN T
     ELSE CASE e.k = "AssignStmt" -> TypeCheck_visitAssignStmt(v, T0, e, p)
            [] e.k = "IfStmt" -> TypeCheck_visitIfStmt(v, T0, e, p)
            [] e.k = "WhileStmt" -> TypeCheck_visitWhileStmt(v, T0, e, p)
            [] e.k = "ReadStmt" -> TypeCheck_visitReadStmt(v, T0, e, p)
            [] e.k = "WriteExpr" -> TypeCheck_visitWriteExpr(v, T0, e, p)
            [] e.k = "ReturnStmt" /\ x -> TypeCheck_visitReturnStmt(v, T0, e, p)
            [] e.k = "ReturnStmt" /\ ~x -> TypeCheckLab_visitReturnStmt(v, T0, e, p)
            [] e.k = "Left_expr" /\ x -> TypeCheck_visitLeft_expr(v, T0, e, p)
            [] e.k = "Left_expr" /\ ~x -> TypeCheckLab_visitLeft_expr(v, T0, e, p)
            [] e.k = "ArrayAccess" /\ x -> TypeCheck_visitArrayAccess(v, T0, e, p)
            [] e.k = "ArrayAccess" /\ ~x -> TypeCheckLab_visitArrayAccess(v, T0, e, p)
            [] e.k = "Parenthesis" -> TypeCheck_visitParenthesis(v, T0, e, p)
            [] e.k = "ExprFunc" -> TypeCheck_visitExprFunc(v, T0, e, p)
            [] e.k = "Unary" /\ x -> TypeCheck_visitUnary(v, T0, e, p)
            [] e.k = "Unary" /\ ~x -> TypeCheckLab_visitUnary(v, T0, e, p)
            [] e.k = "Arithmetic" /\ x -> TypeCheck_visitArithmetic(v, T0, e, p)
            [] e.k = "Arithmetic" /\ ~x -> TypeCheckLab_visitArithmetic(v, T0, e, p)
            [] e.k = "Relational" -> TypeCheck_visitRelational(v, T0, e, p)
            [] e.k = "Logical" -> TypeCheck_visitLogical(v, T0, e, p)
            [] e.k = "Value" -> TypeCheck_visitValue(v, T0, e, p)
            [] e.k = "ExprIdent" -> TypeCheck_visitExprIdent(v, T0, e, p)
            [] e.k = "Potencia" /\ x -> TypeCheck_visitPotencia(v, T0, e, p)
            [] e.k = "Map" /\ x -> TypeCheck_visitMap(v, T0, e, p)
            [] e.k = "Ident" -> TypeCheck_visitIdent(v, T0, e, p)
            [] e.k = "Function_call" /\ x -> TypeCheck_visitFunction_call(v, T0, e, p)
            [] e.k = "Function_call" /\ ~x -> TypeCheckLab_visitFunction_call(v, T0, e, p)
            [] OTHER -> visitChildren(v, T0, e, p, 1)

(***************************************************************************)
(* Code generation (CodeGenVisitor, examen).  Addresses, offsets and       *)
(* labels are strings.  An instruction is [op, a, b, c, own]: the opcode,  *)
(* its operands ("" when absent) and, as a history field, the node whose   *)
(* visit emitted it.  A visitor takes and returns                          *)
(* G = [addr, offs, code, cnt, rd, d, crash, oob, g, fault]: the           *)
(* CodeAttribs of the node just visited, the counters, the nodes whose     *)
(* type decoration was read, what a never written type reads as, whether   *)
(* a visit threw or faulted, how many parameter types were read past the   *)
(* end of a parameter list, what the k-th such read yields (g[k]) and      *)
(* which of them faults (0 for none).                                      *)
(***************************************************************************)
instruction(op, a, b, c) == [op |-> op, a |-> a, b |-> b, c |-> c, own |-> <<>>]
emittedBy(p, code) == [i \in 1..Len(code) |-> [code[i] EXCEPT !.own = p]]

\* counters: each new name is the incremented counter
newTEMP(cnt, k) == "%" \o ToString(cnt.temp + k)
newLabelIF(cnt) == ToString(cnt.lif + 1)
newLabelWHILE(cnt) == ToString(cnt.lwhile + 1)
\* the k-th temporary allocated after G, and G after n allocations
temp(G, k) == newTEMP(G.cnt, k)
\* once a visit has thrown nothing more is allocated, counted or read
allocTEMP(G, n) == IF G.crash THEN G ELSE [G EXCEPT !.cnt.temp = @ + n]
countLabel(G, if) ==
  IF G.crash THEN G
  ELSE IF if THEN [G EXCEPT !.cnt.lif = @ + 1] ELSE [G EXCEPT !.cnt.lwhile = @ + 1]

to_string(t) ==
  CASE isIntegerTy(t) -> "int" [] isFloatTy(t) -> "float"
    [] isBooleanTy(t) -> "bool" [] isCharacterTy(t) -> "char"
    [] OTHER -> t.k

CGState(cnt, d) ==
  [addr |-> "", offs |-> "", code |-> <<>>, cnt |-> cnt, rd |-> {}, d |-> d,
   crash |-> FALSE, oob |-> 0, g |-> <<>>, fault |-> 0]
CodeAttribs(G, addr, offs, code) ==
  [G EXCEPT !.addr = addr, !.offs = offs, !.code = code]
typeRead(G, p) == getTypeDecor(Decorations, p, G.d)
reading(G, ps) == IF G.crash THEN G ELSE [G EXCEPT !.rd = @ \cup ps]

\* the text of a character literal without its quotes
charText(s) == SubSeq(s, 2, Len(s) - 1)

RECURSIVE CodeGen_visit(_, _, _)

\* an operand that is an array element is loaded into a temporary, through
\* the array's address when the array is not a local variable
loadElement(G, p, addr, offs) ==
  IF offs = "" THEN CodeAttribs(G, addr, "", <<>>)
  ELSE IF isLocalVarClass(Symbols, addr)
  THEN CodeAttribs(allocTEMP(G, 1), temp(G, 1), "",
                   emittedBy(p, <<instruction("LOADX", temp(G, 1), addr, offs)>>))
  ELSE CodeAttribs(allocTEMP(G, 2), temp(G, 1), "",
                   emittedBy(p, <<instruction("LOAD", temp(G, 2), addr, ""),
                                  instruction("LOADX", temp(G, 1), temp(G, 2), offs)>>))

CodeGen_visitIdent(G, e, p) == CodeAttribs(G, e.s, "", <<>>)

CodeGen_visitExprIdent(G, e, p) == CodeGen_visit(G, e.c[1], p \o <<1>>)
CodeGen_visitParenthesis(G, e, p) == CodeGen_visit(G, e.c[1], p \o <<1>>)
CodeGen_visitExprFunc(G, e, p) == CodeGen_visit(G, e.c[1], p \o <<1>>)

\* visitValue writing the last temporary instead of taking a new one
CodeGen_visitValue_stale(G, e, p) ==
  LET t == temp(G, 0)
      ins == IF e.s \in INTVAL THEN instruction("ILOAD", t, e.s, "")
             ELSE IF e.s \in FLOATVAL THEN instruction("FLOAD", t, e.s, "")
             ELSE IF e.s \in CHARVAL THEN instruction("CHLOAD", t, charText(e.s), "")
             ELSE IF e.s \in BOOLVAL
             THEN instruction("ILOAD", t, IF e.s = "false" THEN "0" ELSE "1", "")
             ELSE instruction("LOAD", t, e.s, "")
  IN CodeAttribs(G, t, "", emittedBy(p, <<ins>>))

CodeGen_visitValue(G, e, p) ==
  LET t == temp(G, 1)
      ins == IF e.s \in INTVAL THEN instruction("ILOAD", t, e.s, "")
             ELSE IF e.s \in FLOATVAL THEN instruction("FLOAD", t, e.s, "")
             ELSE IF e.s \in CHARVAL THEN instruction("CHLOAD", t, charText(e.s), "")
             ELSE IF e.s \in BOOLVAL
             THEN instruction("ILOAD", t, IF e.s = "false" THEN "0" ELSE "1", "")
             ELSE instruction("LOAD", t, e.s, "")
  IN CodeAttribs(allocTEMP(G, 1), t, "", emittedBy(p, <<ins>>))

CodeGen_visitArrayAccess(G, e, p) ==
  LET G1 == CodeGen_visit(G, e.c[1], p \o <<1>>)
      G2 == CodeGen_visit(G1, e.c[2], p \o <<2>>)
  IN CodeAttribs(G2, e.c[1].s, G2.addr, G1.code \o G2.code)

CodeGen_visitLeft_expr(G, e, p) ==
  LET G1 == CodeGen_visit(G, e.c[1], p \o <<1>>)
  IN IF Len(e.c) > 1
     THEN LET G2 == CodeGen_visit(G1, e.c[2], p \o <<2>>)
          IN IF isParameterClass(Symbols, G1.addr)
             THEN CodeAttribs(allocTEMP(G2, 1), temp(G2, 1), G2.addr,
                              G1.code \o G2.code \o
                              emittedBy(p, <<instruction("LOAD", temp(G2, 1), G1.addr, "")>>))
             ELSE CodeAttribs(G2, G1.addr, G2.addr, G1.code \o G2.code)
     ELSE CodeAttribs(G1, G1.addr, "", G1.code)

CodeGen_visitUnary(G, e, p) ==
  LET G1 == CodeGen_visit(G, e.c[1], p \o <<1>>)
      L == loadElement(G1, p, G1.addr, G1.offs)
      t1 == typeRead(G, p \o <<1>>)
      t == temp(L, 1)
      R == reading(allocTEMP(L, 1), {p \o <<1>>})
      code == G1.code \o L.code
  IN CASE e.s = "not" ->
            CodeAttribs(R, t, "", code \o emittedBy(p, <<instruction("NOT", t, L.addr, "")>>))
       [] e.s = "+" -> CodeAttribs(R, L.addr, "", code)
       [] e.s = "-" ->
            CodeAttribs(R, t, "",
              code \o emittedBy(p, <<instruction(IF isFloatTy(t1) THEN "FNEG" ELSE "NEG",
                                                 t, L.addr, "")>>))
       [] OTHER -> CodeAttribs(R, t, "", code)

\* the opcode of an arithmetic operator; the float opcodes are prefixed
arithOp(op) ==
  CASE op = "*" -> "MUL" [] op = "/" -> "DIV" [] op = "+" -> "ADD" [] op = "-" -> "SUB"
    [] OTHER -> ""

CodeGen_visitArithmetic(G, e, p) ==
  LET G1 == CodeGen_visit(G, e.c[1], p \o <<1>>)
      G2 == CodeGen_visit(G1, e.c[2], p \o <<2>>)
      L1 == loadElement(G2, p, G1.addr, G1.offs)
      L2 == loadElement(L1, p, G2.addr, G2.offs)
      addr1 == L1.addr
      addr2 == L2.addr
      t1 == typeRead(G, p \o <<1>>)
      t2 == typeRead(G, p \o <<2>>)
      t == temp(L2, 1)
      code == G1.code \o G2.code \o L1.code \o L2.code
      R == reading(L2, {p \o <<1>>, p \o <<2>>})
  IN IF isIntegerTy(t1) /\ isIntegerTy(t2)
     THEN IF e.s = "%"
          THEN CodeAttribs(allocTEMP(R, 3), t, "",
                 code \o emittedBy(p,
                   <<instruction("DIV", temp(L2, 2), addr1, addr2),
                     instruction("MUL", temp(L2, 3), addr2, temp(L2, 2)),
                     instruction("SUB", t, addr1, temp(L2, 3))>>))
          ELSE IF arithOp(e.s) = "" THEN CodeAttribs(allocTEMP(R, 1), t, "", code)
          ELSE CodeAttribs(allocTEMP(R, 1), t, "",
                 code \o emittedBy(p, <<instruction(arithOp(e.s), t, addr1, addr2)>>))
     ELSE LET n1 == IF isIntegerTy(t1) THEN 1 ELSE 0
              n2 == IF isIntegerTy(t2) THEN 1 ELSE 0
              tempAddr1 == IF isIntegerTy(t1) THEN temp(L2, 2) ELSE addr1
              tempAddr2 == IF isIntegerTy(t2) THEN temp(L2, 2 + n1) ELSE addr2
              conv == (IF isIntegerTy(t1)
                       THEN <<instruction("FLOAT", tempAddr1, addr1, "")>> ELSE <<>>)
                      \o (IF isIntegerTy(t2)
                          THEN <<instruction("FLOAT", tempAddr2, addr2, "")>> ELSE <<>>)
              m == 1 + n1 + n2
          IN IF e.s = "%"
             THEN CodeAttribs(allocTEMP(R, m + 2), t, "",
                    code \o emittedBy(p, conv \o
                      <<instruction("FDIV", temp(L2, m + 1), tempAddr1, tempAddr2),
                        instruction("FMUL", temp(L2, m + 2), tempAddr2, temp(L2, m + 1)),
                        instruction("FSUB", t, tempAddr1, temp(L2, m + 2))>>))
             ELSE IF arithOp(e.s) = ""
             THEN CodeAttribs(allocTEMP(R, m), t, "", code \o emittedBy(p, conv))
             ELSE CodeAttribs(allocTEMP(R, m), t, "",
                    code \o emittedBy(p, conv \o
                      <<instruction("F" \o arithOp(e.s), t, tempAddr1, tempAddr2)>>))

\* the comparison an operator lowers to: opcode, swapped operands, negated
relOp(op) ==
  CASE op = "==" -> [op |-> "EQ", swap |-> FALSE, neg |-> FALSE]
    [] op = "!=" -> [op |-> "EQ", swap |-> FALSE, neg |-> TRUE]
    [] op = ">" -> [op |-> "LT", swap |-> TRUE, neg |-> FALSE]
    [] op = "<" -> [op |-> "LT", swap |-> FALSE, neg |-> FALSE]
    [] op = ">=" -> [op |-> "LE", swap |-> TRUE, neg |-> FALSE]
    [] op = "<=" -> [op |-> "LE", swap |-> FALSE, neg |-> FALSE]
    [] OTHER -> [op |-> "", swap |-> FALSE, neg |-> FALSE]

compare(prefix, op, t, a1, a2) ==
  LET r == relOp(op)
  IN IF r.op = "" THEN <<>>
     ELSE <<instruction(prefix \o r.op, t, IF r.swap THEN a2 ELSE a1,
                        IF r.swap THEN a1 ELSE a2)>>
          \o (IF r.neg THEN <<instruction("NOT", t, t, "")>> ELSE <<>>)

\* visitRelational converting a non-Float operand in place
CodeGen_visitRelational_inPlace(G, e, p) ==
  LET G1 == CodeGen_visit(G, e.c[1], p \o <<1>>)
      G2 == CodeGen_visit(G1, e.c[2], p \o <<2>>)
      L1 == loadElement(G2, p, G1.addr, G1.offs)
      L2 == loadElement(L1, p, G2.addr, G2.offs)
      addr1 == L1.addr
      addr2 == L2.addr
      t1 == typeRead(G, p \o <<1>>)
      t2 == typeRead(G, p \o <<2>>)
      t == temp(L2, 1)
      code == G1.code \o G2.code \o L1.code \o L2.code
      R == reading(L2, {p \o <<1>>, p \o <<2>>})
  IN IF ~isFloatTy(t1) /\ ~isFloatTy(t2)
     THEN CodeAttribs(allocTEMP(R, 1), t, "",
                      code \o emittedBy(p, compare("", e.s, t, addr1, addr2)))
     ELSE LET conv == (IF ~isFloatTy(t1)
                       THEN <<instruction("FLOAT", addr1, addr1, "")>> ELSE <<>>)
                      \o (IF ~isFloatTy(t2)
                          THEN <<instruction("FLOAT", addr2, addr2, "")>> ELSE <<>>)
          IN CodeAttribs(allocTEMP(R, 1), t, "",
               code \o emittedBy(p, conv \o compare("F", e.s, t, addr1, addr2)))

CodeGen_visitRelational(G, e, p) ==
  LET G1 == CodeGen_visit(G, e.c[1], p \o <<1>>)
      G2 == CodeGen_visit(G1, e.c[2], p \o <<2>>)
      L1 == loadElement(G2, p, G1.addr, G1.offs)
      L2 == loadElement(L1, p, G2.addr, G2.offs)
      addr1 == L1.addr
      addr2 == L2.addr
      t1 == typeRead(G, p \o <<1>>)
      t2 == typeRead(G, p \o <<2>>)
      t == temp(L2, 1)
      code == G1.code \o G2.code \o L1.code \o L2.code
      R == reading(L2, {p \o <<1>>, p \o <<2>>})
  IN IF ~isFloatTy(t1) /\ ~isFloatTy(t2)
     THEN CodeAttribs(allocTEMP(R, 1), t, "",
                      code \o emittedBy(p, compare("", e.s, t, addr1, addr2)))
     ELSE LET n1 == IF ~isFloatTy(t1) THEN 1 ELSE 0
              n2 == IF ~isFloatTy(t2) THEN 1 ELSE 0
              tempAddr1 == IF ~isFloatTy(t1) THEN temp(L2, 2) ELSE addr1
              tempAddr2 == IF ~isFloatTy(t2) THEN temp(L2, 2 + n1) ELSE addr2
              conv == (IF ~isFloatTy(t1)
                       THEN <<instruction("FLOAT", tempAddr1, addr1, "")>> ELSE <<>>)
                      \o (IF ~isFloatTy(t2)
                          THEN <<instruction("FLOAT", tempAddr2, addr2, "")>> ELSE <<>>)
          IN CodeAttribs(allocTEMP(R, 1 + n1 + n2), t, "",
               code \o emittedBy(p, conv \o compare("F", e.s, t, tempAddr1, tempAddr2)))

CodeGen_visitLogical(G, e, p) ==
  LET G1 == CodeGen_visit(G, e.c[1], p \o <<1>>)
      G2 == CodeGen_visit(G1, e.c[2], p \o <<2>>)
      L1 == loadElement(G2, p, G1.addr, G1.offs)
      L2 == loadElement(L1, p, G2.addr, G2.offs)
      t == temp(L2, 1)
      code == G1.code \o G2.code \o L1.code \o L2.code
      op == CASE e.s = "and" -> "AND" [] e.s = "or" -> "OR" [] OTHER -> ""
  IN IF op = "" THEN CodeAttribs(allocTEMP(L2, 1), t, "", code)
     ELSE CodeAttribs(allocTEMP(L2, 1), t, "",
            code \o emittedBy(p, <<instruction(op, t, L1.addr, L2.addr)>>))

INVALID_INTEGER_OPERAND == "INVALID_INTEGER_OPERAND"

\* the factorial without the test that sends a negative operand to the HALT
CodeGen_visitFactorial_unguarded(G, e, p) ==
  LET G1 == CodeGen_visit(G, e.c[1], p \o <<1>>)
      L == loadElement(G1, p, G1.addr, G1.offs)
      addr == L.addr
      index == temp(L, 1)
      zero == temp(L, 2)
      one == temp(L, 3)
      tempCondition == temp(L, 4)
      tempAddr == temp(L, 5)
      tempMult == temp(L, 6)
      label == newLabelWHILE(L.cnt)
      labelFactorial == "factorial" \o label
      labelHalt == "halt" \o label
      labelZeroCase == "zeroCase" \o label
      labelEndFactorial == "endfactorial" \o label
      ld == IF isLocalVarClass(Symbols, addr) THEN "LOAD" ELSE "ILOAD"
      R == countLabel(reading(allocTEMP(L, 6), {p \o <<1>>}), FALSE)
  IN CodeAttribs(R, tempMult, "",
       G1.code \o L.code \o emittedBy(p,
         <<instruction(ld, tempMult, addr, ""),
           instruction(ld, tempAddr, addr, ""),
           instruction("ILOAD", zero, "0", ""),
           instruction("ILOAD", index, "2", ""),
           instruction("ILOAD", one, "1", ""),
           instruction("EQ", tempCondition, zero, tempAddr),
           instruction("NOT", tempCondition, tempCondition, ""),
           instruction("FJUMP", tempCondition, labelZeroCase, ""),
           instruction("LABEL", labelFactorial, "", ""),
           instruction("LT", tempCondition, one, tempAddr),
           instruction("FJUMP", tempCondition, labelEndFactorial, ""),
           instruction("SUB", tempAddr, tempAddr, one),
           instruction("MUL", tempMult, tempMult, tempAddr),
           instruction("UJUMP", labelFactorial, "", ""),
           instruction("LABEL", labelHalt, "", ""),
           instruction("HALT", INVALID_INTEGER_OPERAND, "", ""),
           instruction("LABEL", labelZeroCase, "", ""),
           instruction("ILOAD", tempMult, "1", ""),
           instruction("LABEL", labelEndFactorial, "", "")>>))

CodeGen_visitFactorial(G, e, p) ==
  LET G1 == CodeGen_visit(G, e.c[1], p \o <<1>>)
      L == loadElement(G1, p, G1.addr, G1.offs)
      addr == L.addr
      index == temp(L, 1)
      zero == temp(L, 2)
      one == temp(L, 3)
      tempCondition == temp(L, 4)
      tempAddr == temp(L, 5)
      tempMult == temp(L, 6)
      label == newLabelWHILE(L.cnt)
      labelFactorial == "factorial" \o label
      labelHalt == "halt" \o label
      labelZeroCase == "zeroCase" \o label
      labelEndFactorial == "endfactorial" \o label
      ld == IF isLocalVarClass(Symbols, addr) THEN "LOAD" ELSE "ILOAD"
      R == countLabel(reading(allocTEMP(L, 6), {p \o <<1>>}), FALSE)
  IN CodeAttribs(R, tempMult, "",
       G1.code \o L.code \o emittedBy(p,
         <<instruction(ld, tempMult, addr, ""),
           instruction(ld, tempAddr, addr, ""),
           instruction("ILOAD", zero, "0", ""),
           instruction("ILOAD", index, "2", ""),
           instruction("ILOAD", one, "1", ""),
           instruction("EQ", tempCondition, zero, tempAddr),
           instruction("NOT", tempCondition, tempCondition, ""),
           instruction("FJUMP", tempCondition, labelZeroCase, ""),
           instruction("LE", tempCondition, zero, tempAddr),
           instruction("FJUMP", tempCondition, labelHalt, ""),
           instruction("LABEL", labelFactorial, "", ""),
           instruction("LT", tempCondition, one, tempAddr),
           instruction("FJUMP", tempCondition, labelEndFactorial, ""),
           instruction("SUB", tempAddr, tempAddr, one),
           instruction("MUL", tempMult, tempMult, tempAddr),
           instruction("UJUMP", labelFactorial, "", ""),
           instruction("LABEL", labelHalt, "", ""),
           instruction("HALT", INVALID_INTEGER_OPERAND, "", ""),
           instruction("LABEL", labelZeroCase, "", ""),
           instruction("ILOAD", tempMult, "1", ""),
           instruction("LABEL", labelEndFactorial, "", "")>>))

\* the argument loop taking the address of every array argument, local
\* variable or not
RECURSIVE CodeGen_visitArgs_aloadAlways(_, _, _, _, _)
CodeGen_visitArgs_aloadAlways(A, e, p, tFunc, i) ==
  IF i > Len(e.c) THEN A
  ELSE LET G1 == CodeGen_visit(A.G, e.c[i], p \o <<i>>)
           addr1 == G1.addr
           tExpr == typeRead(G1, p \o <<i>>)
           tParam == getParameterType(tFunc, i - 1)
           conv == isIntegerTy(tExpr) /\ isFloatTy(tParam)
           aload == ~conv /\ isArrayTy(tParam)
           tempAddr1 == IF conv \/ aload THEN temp(G1, 1) ELSE addr1
           G2 == reading(IF conv \/ aload THEN allocTEMP(G1, 1) ELSE G1, {p \o <<i>>})
           extra == IF conv THEN <<instruction("FLOAT", tempAddr1, addr1, "")>>
                    ELSE IF aload THEN <<instruction("ALOAD", tempAddr1, addr1, "")>>
                    ELSE <<>>
       IN CodeGen_visitArgs_aloadAlways(
            [G |-> G2,
             code |-> A.code \o G1.code \o emittedBy(p, extra),
             pushCode |-> A.pushCode \o emittedBy(p, <<instruction("PUSH", tempAddr1, "", "")>>),
             popCode |-> A.popCode \o emittedBy(p, <<instruction("POP", "", "", "")>>)],
            e, p, tFunc, i + 1)

\* the loop over the arguments, children 2.. of the function_call; A holds
\* the visitor state and the code, pushCode and popCode so far
RECURSIVE CodeGen_visitArgs(_, _, _, _, _)
CodeGen_visitArgs(A, e, p, tFunc, i) ==
  IF i > Len(e.c) THEN A
  ELSE LET G1 == CodeGen_visit(A.G, e.c[i], p \o <<i>>)
           addr1 == G1.addr
           tExpr == typeRead(G1, p \o <<i>>)
           tParam == getParameterType(tFunc, i - 1)
           conv == isIntegerTy(tExpr) /\ isFloatTy(tParam)
           aload == ~conv /\ isArrayTy(tParam) /\ isLocalVarClass(Symbols, addr1)
           tempAddr1 == IF conv \/ aload THEN temp(G1, 1) ELSE addr1
           G2 == reading(IF conv \/ aload THEN allocTEMP(G1, 1) ELSE G1, {p \o <<i>>})
           extra == IF conv THEN <<instruction("FLOAT", tempAddr1, addr1, "")>>
                    ELSE IF aload THEN <<instruction("ALOAD", tempAddr1, addr1, "")>>
                    ELSE <<>>
       IN CodeGen_visitArgs(
            [G |-> G2,
             code |-> A.code \o G1.code \o emittedBy(p, extra),
             pushCode |-> A.pushCode \o emittedBy(p, <<instruction("PUSH", tempAddr1, "", "")>>),
             popCode |-> A.popCode \o emittedBy(p, <<instruction("POP", "", "", "")>>)],
            e, p, tFunc, i + 1)

\* visitFunction_call making room for a result and popping it for every callee
CodeGen_visitFunction_call_slotAlways(G, e, p) ==
  LET funcName == e.c[1].s
      tFunc == typeRead(G, p \o <<1>>)
      A == CodeGen_visitArgs(
             [G |-> reading(G, {p \o <<1>>}),
              code |-> emittedBy(p, <<instruction("PUSH", "", "", "")>>),
              pushCode |-> <<>>, popCode |-> <<>>],
             e, p, tFunc, 2)
      code == A.code \o A.pushCode
              \o emittedBy(p, <<instruction("CALL", funcName, "", "")>>) \o A.popCode
  IN CodeAttribs(allocTEMP(A.G, 1), temp(A.G, 1), "",
                 code \o emittedBy(p, <<instruction("POP", temp(A.G, 1), "", "")>>))

CodeGen_visitFunction_call(G, e, p) ==
  LET funcName == e.c[1].s
      tFunc == typeRead(G, p \o <<1>>)
      code0 == IF ~isVoidFunction(tFunc)
               THEN emittedBy(p, <<instruction("PUSH", "", "", "")>>) ELSE <<>>
      A == CodeGen_visitArgs(
             [G |-> reading(G, {p \o <<1>>}), code |-> code0,
              pushCode |-> <<>>, popCode |-> <<>>],
             e, p, tFunc, 2)
      code == A.code \o A.pushCode
              \o emittedBy(p, <<instruction("CALL", funcName, "", "")>>) \o A.popCode
  IN IF ~isVoidFunction(tFunc)
     THEN CodeAttribs(allocTEMP(A.G, 1), temp(A.G, 1), "",
                      code \o emittedBy(p, <<instruction("POP", temp(A.G, 1), "", "")>>))
     ELSE CodeAttribs(A.G, "", "", code)

\* the copy loop stopping before the last element
RECURSIVE copyLoop_short(_, _, _, _, _, _)
copyLoop_short(i, arraySize, addr1, addr2, tempOffs, tempRight) ==
  IF i >= arraySize - 1 THEN <<>>
  ELSE <<instruction("ILOAD", tempOffs, ToString(i), ""),
         instruction("LOADX", tempRight, addr2, tempOffs),
         instruction("XLOAD", addr1, tempOffs, tempRight)>>
       \o copyLoop_short(i + 1, arraySize, addr1, addr2, tempOffs, tempRight)

\* the copy loop of a whole-array assignment, element i on
RECURSIVE copyLoop(_, _, _, _, _, _)
copyLoop(i, arraySize, addr1, addr2, tempOffs, tempRight) ==
  IF i >= arraySize THEN <<>>
  ELSE <<instruction("ILOAD", tempOffs, ToString(i), ""),
         instruction("LOADX", tempRight, addr2, tempOffs),
         instruction("XLOAD", addr1, tempOffs, tempRight)>>
       \o copyLoop(i + 1, arraySize, addr1, addr2, tempOffs, tempRight)

\* addresses of by-reference arrays are loaded into temporaries: the
\* address to use, the code and the number of temporaries taken
byReference(G, k, addr) ==
  IF isParameterClass(Symbols, addr)
  THEN [addr |-> temp(G, k), n |-> 1,
        code |-> <<instruction("LOAD", temp(G, k), addr, "")>>]
  ELSE [addr |-> addr, n |-> 0, code |-> <<>>]

CodeGen_visitAssignStmt(G, e, p) ==
  LET G1 == CodeGen_visit(G, e.c[1], p \o <<1>>)
      addr1 == G1.addr
      offs1 == G1.offs
      tLeft0 == typeRead(G, p \o <<1>>)
      G2 == CodeGen_visit(G1, e.c[2], p \o <<2>>)
      offs2 == G2.offs
      tRight0 == typeRead(G, p \o <<2>>)
      tRight == IF isFunctionTy(tRight0) THEN getFuncReturnType(tRight0) ELSE tRight0
      conv == isFloatTy(tLeft0) /\ isIntegerTy(tRight)
      G3 == IF conv THEN allocTEMP(G2, 1) ELSE G2
      addr2 == IF conv THEN temp(G2, 1) ELSE G2.addr
      code == G1.code \o G2.code
              \o (IF conv THEN emittedBy(p, <<instruction("FLOAT", temp(G2, 1), G2.addr, "")>>)
                  ELSE <<>>)
      tLeft == IF Len(e.c[1].c) > 1 THEN typeRead(G, p \o <<1, 1>>) ELSE tLeft0
      exprIsArrayTy == offs2 # ""
      R == reading(G3, {p \o <<1>>, p \o <<2>>}
                       \cup (IF Len(e.c[1].c) > 1 THEN {p \o <<1, 1>>} ELSE {}))
      r1 == byReference(G3, 1, addr1)
      r2 == byReference(G3, 1 + r1.n, addr2)
      n == r1.n + r2.n
  IN IF isArrayTy(tLeft) /\ ~exprIsArrayTy
     THEN IF offs1 # ""
          THEN CodeAttribs(R, "", "",
                 code \o emittedBy(p, <<instruction("XLOAD", addr1, offs1, addr2)>>))
          ELSE CodeAttribs(allocTEMP(R, n + 2), "", "",
                 code \o emittedBy(p, r1.code \o r2.code
                   \o copyLoop(0, getArraySize(tLeft), r1.addr, r2.addr,
                               temp(G3, n + 1), temp(G3, n + 2))))
     ELSE IF ~isArrayTy(tLeft) /\ exprIsArrayTy
     THEN CodeAttribs(allocTEMP(R, r2.n), "", "",
            code \o emittedBy(p, byReference(G3, 1, addr2).code
              \o <<instruction("LOADX", addr1, byReference(G3, 1, addr2).addr, offs2)>>))
     ELSE IF isArrayTy(tLeft) /\ exprIsArrayTy
     THEN CodeAttribs(allocTEMP(R, n + 1), "", "",
            code \o emittedBy(p, r1.code \o r2.code
              \o <<instruction("LOADX", temp(G3, n + 1), r2.addr, offs2),
                   instruction("XLOAD", r1.addr, offs1, temp(G3, n + 1))>>))
     ELSE IF isFloatTy(tRight)
     THEN CodeAttribs(R, "", "", code \o emittedBy(p, <<instruction("FLOAD", addr1, addr2, "")>>))
     ELSE IF isCharacterTy(tRight)
     THEN CodeAttribs(R, "", "", code \o emittedBy(p, <<instruction("CHLOAD", addr1, addr2, "")>>))
     ELSE CodeAttribs(R, "", "", code \o emittedBy(p, <<instruction("ILOAD", addr1, addr2, "")>>))

\* visitIfStmt letting the then-body fall through into the else-body
CodeGen_visitIfStmt_fallthrough(G, e, p) ==
  LET G1 == CodeGen_visit(G, e.c[1], p \o <<1>>)
      offs1 == G1.offs
      r == IF offs1 # "" THEN byReference(G1, 1, G1.addr)
           ELSE [addr |-> G1.addr, n |-> 0, code |-> <<>>]
      addr1 == r.addr
      code == G1.code \o emittedBy(p,
                IF offs1 # ""
                THEN r.code \o <<instruction("LOADX", addr1, addr1, offs1)>>
                ELSE <<>>)
      G2 == CodeGen_visit(allocTEMP(G1, r.n), e.c[2], p \o <<2>>)
      label == newLabelIF(G2.cnt)
      labelElse == "else" \o label
      labelEndIf == "endif" \o label
      G3 == countLabel(G2, TRUE)
  IN IF Len(e.c) > 2
     THEN LET G4 == CodeGen_visit(G3, e.c[3], p \o <<3>>)
          IN CodeAttribs(G4, "", "",
               code \o emittedBy(p, <<instruction("FJUMP", addr1, labelElse, "")>>)
               \o G2.code
               \o emittedBy(p, <<instruction("LABEL", labelElse, "", "")>>)
               \o G4.code
               \o emittedBy(p, <<instruction("LABEL", labelEndIf, "", "")>>))
     ELSE CodeAttribs(G3, "", "",
            code \o emittedBy(p, <<instruction("FJUMP", addr1, labelEndIf, "")>>)
            \o G2.code
            \o emittedBy(p, <<instruction("LABEL", labelEndIf, "", "")>>))

CodeGen_visitIfStmt(G, e, p) ==
  LET G1 == CodeGen_visit(G, e.c[1], p \o <<1>>)
      offs1 == G1.offs
      r == IF offs1 # "" THEN byReference(G1, 1, G1.addr)
           ELSE [addr |-> G1.addr, n |-> 0, code |-> <<>>]
      addr1 == r.addr
      code == G1.code \o emittedBy(p,
                IF offs1 # ""
                THEN r.code \o <<instruction("LOADX", addr1, addr1, offs1)>>
                ELSE <<>>)
      G2 == CodeGen_visit(allocTEMP(G1, r.n), e.c[2], p \o <<2>>)
      label == newLabelIF(G2.cnt)
      labelElse == "else" \o label
      labelEndIf == "endif" \o label
      G3 == countLabel(G2, TRUE)
  IN IF Len(e.c) > 2
     THEN LET G4 == CodeGen_visit(G3, e.c[3], p \o <<3>>)
          IN CodeAttribs(G4, "", "",
               code \o emittedBy(p, <<instruction("FJUMP", addr1, labelElse, "")>>)
               \o G2.code
               \o emittedBy(p, <<instruction("UJUMP", labelEndIf, "", ""),
                                 instruction("LABEL", labelElse, "", "")>>)
               \o G4.code
               \o emittedBy(p, <<instruction("LABEL", labelEndIf, "", "")>>))
     ELSE CodeAttribs(G3, "", "",
            code \o emittedBy(p, <<instruction("FJUMP", addr1, labelEndIf, "")>>)
            \o G2.code
            \o emittedBy(p, <<instruction("LABEL", labelEndIf, "", "")>>))

\* visitWhileStmt naming its labels without advancing the label counter
CodeGen_visitWhileStmt_stale(G, e, p) ==
  LET G1 == CodeGen_visit(G, e.c[1], p \o <<1>>)
      addr1 == G1.addr
      G2 == CodeGen_visit(G1, e.c[2], p \o <<2>>)
      label == newLabelWHILE(G2.cnt)
      labelWhile == "while" \o label
      labelEndWhile == "endwhile" \o label
  IN CodeAttribs(G2, "", "",
       emittedBy(p, <<instruction("LABEL", labelWhile, "", "")>>)
       \o G1.code
       \o emittedBy(p, <<instruction("FJUMP", addr1, labelEndWhile, "")>>)
       \o G2.code
       \o emittedBy(p, <<instruction("UJUMP", labelWhile, "", ""),
                         instruction("LABEL", labelEndWhile, "", "")>>))

CodeGen_visitWhileStmt(G, e, p) ==
  LET G1 == CodeGen_visit(G, e.c[1], p \o <<1>>)
      addr1 == G1.addr
      G2 == CodeGen_visit(G1, e.c[2], p \o <<2>>)
      label == newLabelWHILE(G2.cnt)
      labelWhile == "while" \o label
      labelEndWhile == "endwhile" \o label
  IN CodeAttribs(countLabel(G2, FALSE), "", "",
       emittedBy(p, <<instruction("LABEL", labelWhile, "", "")>>)
       \o G1.code
       \o emittedBy(p, <<instruction("FJUMP", addr1, labelEndWhile, "")>>)
       \o G2.code
       \o emittedBy(p, <<instruction("UJUMP", labelWhile, "", ""),
                         instruction("LABEL", labelEndWhile, "", "")>>))

CodeGen_visitProcCall(G, e, p) ==
  LET G1 == CodeGen_visit(G, e.c[1], p \o <<1>>)
  IN CodeAttribs(G1, "", "", G1.code)

\* the read and write opcodes by the type of the operand
ioOp(prefix, t) ==
  IF isFloatTy(t) THEN prefix \o "F"
  ELSE IF isCharacterTy(t) THEN prefix \o "C"
  ELSE prefix \o "I"

CodeGen_visitReadStmt(G, e, p) ==
  LET G1 == CodeGen_visit(G, e.c[1], p \o <<1>>)
      addr1 == G1.addr
      offs1 == G1.offs
      tid == typeRead(G, p \o <<1>>)
      t == IF offs1 # "" THEN temp(G1, 1) ELSE addr1
      R == reading(IF offs1 # "" THEN allocTEMP(G1, 1) ELSE G1, {p \o <<1>>})
  IN CodeAttribs(R, "", "",
       G1.code \o emittedBy(p,
         <<instruction(ioOp("READ", tid), t, "", "")>>
         \o (IF offs1 # "" THEN <<instruction("XLOAD", addr1, offs1, t)>> ELSE <<>>)))

CodeGen_visitWriteExpr(G, e, p) ==
  LET G1 == CodeGen_visit(G, e.c[1], p \o <<1>>)
      L == loadElement(G1, p, G1.addr, G1.offs)
      tid1 == typeRead(G, p \o <<1>>)
  IN CodeAttribs(reading(L, {p \o <<1>>}), "", "",
       G1.code \o L.code
       \o emittedBy(p, <<instruction(ioOp("WRITE", tid1), L.addr, "", "")>>))

CodeGen_visitWriteString(G, e, p) ==
  CodeAttribs(G, "", "", emittedBy(p, <<instruction("WRITES", e.s, "", "")>>))

CodeGen_visitReturnStmt(G, e, p) ==
  IF Len(e.c) > 0
  THEN LET G1 == CodeGen_visit(G, e.c[1], p \o <<1>>)
       IN CodeAttribs(G1, "", "",
            G1.code \o emittedBy(p, <<instruction("LOAD", "_result", G1.addr, ""),
                                      instruction("RETURN", "", "", "")>>))
  ELSE CodeAttribs(G, "", "", emittedBy(p, <<instruction("RETURN", "", "", "")>>))

(***************************************************************************)
(* Code generation (CodeGenVisitor, practica).  The visitors of idents,    *)
(* parentheses, expression idents, expression calls, write-string and the  *)
(* statement list read as the examen ones.  No practica node carries an    *)
(* offset.                                                                 *)
(***************************************************************************)
\* visitArray returns the integer 0, and visitLeftArrayAccess and
\* visitArrayAccess convert that result to a CodeAttribs: the conversion
\* throws std::bad_cast
CodeGenPractica_visitArray(G, e, p) == [G EXCEPT !.crash = TRUE]
CodeGenPractica_visitArrayAccess(G, e, p) ==
  CodeAttribs(CodeGenPractica_visitArray(G, e, p), "", "", <<>>)
CodeGenPractica_visitLeft_expr(G, e, p) ==
  IF Len(e.c) > 1 THEN CodeAttribs(CodeGenPractica_visitArray(G, e, p), "", "", <<>>)
  ELSE CodeGen_visit(G, e.c[1], p \o <<1>>)

\* the grammar of the practica has no factorial visitor: visitChildren
\* returns the result of the operator token, which is no CodeAttribs
CodeGenPractica_visitFactorial(G, e, p) ==
  LET G1 == CodeGen_visit(G, e.c[1], p \o <<1>>)
  IN CodeAttribs([G1 EXCEPT !.crash = TRUE], "", "", <<>>)

CodeGenPractica_visitValue(G, e, p) ==
  LET t == temp(G, 1)
      ins == IF e.s \in INTVAL THEN instruction("ILOAD", t, e.s, "")
             ELSE IF e.s \in FLOATVAL THEN instruction("FLOAD", t, e.s, "")
             ELSE IF e.s \in CHARVAL THEN instruction("CHLOAD", t, e.s, "")
             ELSE IF e.s \in BOOLVAL
             THEN instruction("ILOAD", t, IF e.s = "false" THEN "0" ELSE "1", "")
             ELSE instruction("LOAD", t, e.s, "")
  IN CodeAttribs(allocTEMP(G, 1), t, "", emittedBy(p, <<ins>>))

CodeGenPractica_visitUnary(G, e, p) ==
  LET G1 == CodeGen_visit(G, e.c[1], p \o <<1>>)
      addr == G1.addr
      t1 == typeRead(G, p \o <<1>>)
      t == temp(G1, 1)
      R == reading(allocTEMP(G1, 1), {p \o <<1>>})
  IN CASE e.s = "not" ->
            CodeAttribs(R, t, "", G1.code \o emittedBy(p, <<instruction("NOT", t, addr, "")>>))
       [] e.s = "+" -> CodeAttribs(R, addr, "", G1.code)
       [] e.s = "-" ->
            CodeAttribs(R, t, "",
              G1.code \o emittedBy(p, <<instruction(IF isFloatTy(t1) THEN "FNEG" ELSE "NEG",
                                                    t, addr, "")>>))
       [] OTHER -> CodeAttribs(R, t, "", G1.code)

CodeGenPractica_visitArithmetic(G, e, p) ==
  LET G1 == CodeGen_visit(G, e.c[1], p \o <<1>>)
      G2 == CodeGen_visit(G1, e.c[2], p \o <<2>>)
      addr1 == G1.addr
      addr2 == G2.addr
      code == G1.code \o G2.code
      t1 == typeRead(G, p \o <<1>>)
      t2 == typeRead(G, p \o <<2>>)
      t == temp(G2, 1)
      R == reading(G2, {p \o <<1>>, p \o <<2>>})
      int == isIntegerTy(t1) /\ isIntegerTy(t2)
      n1 == IF ~int /\ isIntegerTy(t1) THEN 1 ELSE 0
      n2 == IF ~int /\ isIntegerTy(t2) THEN 1 ELSE 0
      tempAddr1 == IF n1 = 1 THEN temp(G2, 2) ELSE addr1
      tempAddr2 == IF n2 = 1 THEN temp(G2, 2 + n1) ELSE addr2
      conv == (IF n1 = 1 THEN <<instruction("FLOAT", tempAddr1, addr1, "")>> ELSE <<>>)
              \o (IF n2 = 1 THEN <<instruction("FLOAT", tempAddr2, addr2, "")>> ELSE <<>>)
      m == 1 + n1 + n2
      F == IF int THEN "" ELSE "F"
  IN IF e.s = "%"
     THEN CodeAttribs(allocTEMP(R, m + 2), t, "",
            code \o emittedBy(p, conv \o
              <<instruction(F \o "DIV", temp(G2, m + 1), tempAddr1, tempAddr2),
                instruction(F \o "MUL", temp(G2, m + 2), tempAddr2, temp(G2, m + 1)),
                instruction(F \o "SUB", t, tempAddr1, temp(G2, m + 2))>>))
     ELSE IF arithOp(e.s) = "" THEN CodeAttribs(allocTEMP(R, m), t, "", code \o emittedBy(p, conv))
     ELSE CodeAttribs(allocTEMP(R, m), t, "",
            code \o emittedBy(p, conv \o
              <<instruction(F \o arithOp(e.s), t, tempAddr1, tempAddr2)>>))

CodeGenPractica_visitRelational(G, e, p) ==
  LET G1 == CodeGen_visit(G, e.c[1], p \o <<1>>)
      G2 == CodeGen_visit(G1, e.c[2], p \o <<2>>)
      addr1 == G1.addr
      addr2 == G2.addr
      code == G1.code \o G2.code
      t1 == typeRead(G, p \o <<1>>)
      t2 == typeRead(G, p \o <<2>>)
      t == temp(G2, 1)
      R == reading(allocTEMP(G2, 1), {p \o <<1>>, p \o <<2>>})
  IN IF isIntegerTy(t1) /\ isIntegerTy(t2)
     THEN CodeAttribs(R, t, "", code \o emittedBy(p, compare("", e.s, t, addr1, addr2)))
     ELSE CodeAttribs(R, t, "",
            code \o emittedBy(p,
              <<IF isFloatTy(t1) THEN instruction("FLOAT", addr1, addr1, "")
                ELSE instruction("FLOAT", addr2, addr2, "")>>
              \o compare("F", e.s, t, addr1, addr2)))

CodeGenPractica_visitLogical(G, e, p) ==
  LET G1 == CodeGen_visit(G, e.c[1], p \o <<1>>)
      G2 == CodeGen_visit(G1, e.c[2], p \o <<2>>)
      t == temp(G2, 1)
      code == G1.code \o G2.code
      op == CASE e.s = "and" -> "AND" [] e.s = "or" -> "OR" [] OTHER -> ""
  IN IF op = "" THEN CodeAttribs(allocTEMP(G2, 1), t, "", code)
     ELSE CodeAttribs(allocTEMP(G2, 1), t, "",
            code \o emittedBy(p, <<instruction(op, t, G1.addr, G2.addr)>>))

\* the loop over the arguments: the converted copy of an argument is
\* computed but the argument's own address is pushed
RECURSIVE CodeGenPractica_visitArgs(_, _, _, _, _)
CodeGenPractica_visitArgs(A, e, p, tFunc, i) ==
  IF i > Len(e.c) THEN A
  ELSE LET G1 == CodeGen_visit(A.G, e.c[i], p \o <<i>>)
           addr1 == G1.addr
           tExpr == typeRead(G1, p \o <<i>>)
           inRange == i - 1 <= getNumOfParameters(tFunc)
           Gr == reading(G1, {p \o <<i>>})
           \* getParameterType(tFunc, i) past the end of the list: the k-th
           \* such read of the statement yields any type, or faults
           k == Gr.oob + 1
           Gs == IF inRange \/ Gr.crash THEN Gr
                 ELSE [Gr EXCEPT !.oob = k, !.crash = (Gr.fault = k)]
           tParam == IF inRange THEN getParameterType(tFunc, i - 1)
                     ELSE strayAt(Gr, k)
           conv == isIntegerTy(tExpr) /\ isFloatTy(tParam)
           aload == ~conv /\ isArrayTy(tParam)
           G2 == IF conv \/ aload THEN allocTEMP(Gs, 1) ELSE Gs
           extra == IF conv THEN <<instruction("FLOAT", temp(G1, 1), addr1, "")>>
                    ELSE IF aload THEN <<instruction("ALOAD", temp(G1, 1), addr1, "")>>
                    ELSE <<>>
       IN CodeGenPractica_visitArgs(
            [G |-> G2,
             code |-> A.code \o G1.code \o emittedBy(p, extra),
             pushCode |-> A.pushCode \o emittedBy(p, <<instruction("PUSH", addr1, "", "")>>),
             popCode |-> A.popCode \o emittedBy(p, <<instruction("POP", "", "", "")>>)],
            e, p, tFunc, i + 1)

CodeGenPractica_visitFunction_call(G, e, p) ==
  LET funcName == e.c[1].s
      tFunc == typeRead(G, p \o <<1>>)
      A == CodeGenPractica_visitArgs(
             [G |-> reading(G, {p \o <<1>>}),
              code |-> emittedBy(p, <<instruction("PUSH", "", "", "")>>),
              pushCode |-> <<>>, popCode |-> <<>>],
             e, p, tFunc, 2)
  IN CodeAttribs(allocTEMP(A.G, 1), temp(A.G, 1), "",
       A.code \o A.pushCode
       \o emittedBy(p, <<instruction("CALL", funcName, "", "")>>) \o A.popCode
       \o emittedBy(p, <<instruction("POP", temp(A.G, 1), "", "")>>))

CodeGenPractica_visitAssignStmt(G, e, p) ==
  LET G1 == CodeGen_visit(G, e.c[1], p \o <<1>>)
      G2 == CodeGen_visit(G1, e.c[2], p \o <<2>>)
  IN CodeAttribs(G2, "", "",
       G1.code \o G2.code \o emittedBy(p, <<instruction("LOAD", G1.addr, G2.addr, "")>>))

\* an else branch is neither visited nor emitted
CodeGenPractica_visitIfStmt(G, e, p) ==
  LET G1 == CodeGen_visit(G, e.c[1], p \o <<1>>)
      G2 == CodeGen_visit(G1, e.c[2], p \o <<2>>)
      labelEndIf == "endif" \o newLabelIF(G2.cnt)
  IN CodeAttribs(countLabel(G2, TRUE), "", "",
       G1.code \o emittedBy(p, <<instruction("FJUMP", G1.addr, labelEndIf, "")>>)
       \o G2.code \o emittedBy(p, <<instruction("LABEL", labelEndIf, "", "")>>))

CodeGenPractica_visitWhileStmt(G, e, p) ==
  LET G1 == CodeGen_visit(G, e.c[1], p \o <<1>>)
      G2 == CodeGen_visit(G1, e.c[2], p \o <<2>>)
      label == newLabelWHILE(G2.cnt)
      labelWhile == "while" \o label
      labelEndWhile == "endwhile" \o label
  IN CodeAttribs(countLabel(G2, FALSE), "", "",
       emittedBy(p, <<instruction("LABEL", labelWhile, "", "")>>)
       \o G1.code
       \o emittedBy(p, <<instruction("FJUMP", G1.addr, labelEndWhile, "")>>)
       \o G2.code
       \o emittedBy(p, <<instruction("UJUMP", labelWhile, "", ""),
                         instruction("LABEL", labelEndWhile, "", "")>>))

\* the call is not visited: the statement has no code
CodeGenPractica_visitProcCall(G, e, p) == CodeAttribs(G, "", "", <<>>)

CodeGenPractica_visitReadStmt(G, e, p) ==
  LET G1 == CodeGen_visit(G, e.c[1], p \o <<1>>)
  IN CodeAttribs(G1, "", "",
       G1.code \o emittedBy(p, <<instruction("READI", G1.addr, "", "")>>))

CodeGenPractica_visitWriteExpr(G, e, p) ==
  LET G1 == CodeGen_visit(G, e.c[1], p \o <<1>>)
      tid1 == typeRead(G, p \o <<1>>)
  IN CodeAttribs(reading(G1, {p \o <<1>>}), "", "",
       G1.code \o emittedBy(p, <<instruction(ioOp("WRITE", tid1), G1.addr, "", "")>>))

\* a return without a value has no code
CodeGenPractica_visitReturnStmt(G, e, p) ==
  IF Len(e.c) > 0
  THEN LET G1 == CodeGen_visit(G, e.c[1], p \o <<1>>)
       IN CodeAttribs(G1, "", "",
            G1.code \o emittedBy(p, <<instruction("LOAD", "_result", G1.addr, ""),
                                      instruction("RETURN", "", "", "")>>))
  ELSE CodeAttribs(G, "", "", <<>>)

\* the loop of visitStatements, from statement i on, code so far in acc
\* a node kind the code generator has no visit method for gets the base
\* visitor's visitChildren: every child is visited in order and the result
\* is the last child's
RECURSIVE CodeGen_visitChildren(_, _, _, _)
CodeGen_visitChildren(G, e, p, i) ==
  IF i > Len(e.c) THEN G
  ELSE CodeGen_visitChildren(CodeGen_visit(G, e.c[i], p \o <<i>>), e, p, i + 1)

\* visitStatements converts what the visit of a statement returns to an
\* instructionList; the result of visitChildren is none and the conversion
\* throws
CodeGen_visitStatement_other(G, e, p) ==
  CodeAttribs([CodeGen_visitChildren(CodeAttribs(G, "", "", <<>>), e, p, 1)
                 EXCEPT !.crash = TRUE], "", "", <<>>)

RECURSIVE CodeGen_statements(_, _, _, _, _)
CodeGen_statements(G, e, p, i, acc) ==
  IF i > Len(e.c) THEN CodeAttribs(G, "", "", acc)
  ELSE LET G1 == CodeGen_visit(G, e.c[i], p \o <<i>>)
       IN CodeGen_statements(G1, e, p, i + 1, acc \o G1.code)

CodeGen_visitStatements(G, e, p) == CodeGen_statements(G, e, p, 1, <<>>)

CodeGenPractica_visit(G, e, p) ==
  CASE e.k = "Statements" -> CodeGen_visitStatements(G, e, p)
    [] e.k = "AssignStmt" -> CodeGenPractica_visitAssignStmt(G, e, p)
    [] e.k = "IfStmt" -> CodeGenPractica_visitIfStmt(G, e, p)
    [] e.k = "WhileStmt" -> CodeGenPractica_visitWhileStmt(G, e, p)
    [] e.k = "ProcCall" -> CodeGenPractica_visitProcCall(G, e, p)
    [] e.k = "ReadStmt" -> CodeGenPractica_visitReadStmt(G, e, p)
    [] e.k = "WriteExpr" -> CodeGenPractica_visitWriteExpr(G, e, p)
    [] e.k = "WriteString" -> CodeGen_visitWriteString(G, e, p)
    [] e.k = "ReturnStmt" -> CodeGenPractica_visitReturnStmt(G, e, p)
    [] e.k = "Left_expr" -> CodeGenPractica_visitLeft_expr(G, e, p)
    [] e.k = "Parenthesis" -> CodeGen_visitParenthesis(G, e, p)
    [] e.k = "ExprFunc" -> CodeGen_visitExprFunc(G, e, p)
    [] e.k = "Unary" -> CodeGenPractica_visitUnary(G, e, p)
    [] e.k = "Arithmetic" -> CodeGenPractica_visitArithmetic(G, e, p)
    [] e.k = "Relational" -> CodeGenPractica_visitRelational(G, e, p)
    [] e.k = "Logical" -> CodeGenPractica_visitLogical(G, e, p)
    [] e.k = "ArrayAccess" -> CodeGenPractica_visitArrayAccess(G, e, p)
    [] e.k = "Value" -> CodeGenPractica_visitValue(G, e, p)
    [] e.k = "ExprIdent" -> CodeGen_visitExprIdent(G, e, p)
    [] e.k = "Factorial" -> CodeGenPractica_visitFactorial(G, e, p)
    [] e.k = "Ident" -> CodeGen_visitIdent(G, e, p)
    [] e.k = "Function_call" -> CodeGenPractica_visitFunction_call(G, e, p)
    [] e.k = "Map" -> CodeGen_visitStatement_other(G, e, p)
    [] OTHER -> CodeGen_visitChildren(CodeAttribs(G, "", "", <<>>), e, p, 1)

\* the visitor of the variant that runs
CodeGen_visit(G, e, p) ==
  IF G.crash THEN G ELSE
  IF variant = "practica" THEN CodeGenPractica_visit(G, e, p) ELSE
  CASE e.k = "Statements" -> CodeGen_visitStatements(G, e, p)
    [] e.k = "AssignStmt" -> CodeGen_visitAssignStmt(G, e, p)
    [] e.k = "IfStmt" -> CodeGen_visitIfStmt(G, e, p)
    [] e.k = "WhileStmt" -> CodeGen_visitWhileStmt(G, e, p)
    [] e.k = "ProcCall" -> CodeGen_visitProcCall(G, e, p)
    [] e.k = "ReadStmt" -> CodeGen_visitReadStmt(G, e, p)
    [] e.k = "WriteExpr" -> CodeGen_visitWriteExpr(G, e, p)
    [] e.k = "WriteString" -> CodeGen_visitWriteString(G, e, p)
    [] e.k = "ReturnStmt" -> CodeGen_visitReturnStmt(G, e, p)
    [] e.k = "Left_expr" -> CodeGen_visitLeft_expr(G, e, p)
    [] e.k = "Parenthesis" -> CodeGen_visitParenthesis(G, e, p)
    [] e.k = "ExprFunc" -> CodeGen_visitExprFunc(G, e, p)
    [] e.k = "Unary" -> CodeGen_visitUnary(G, e, p)
    [] e.k = "Arithmetic" -> CodeGen_visitArithmetic(G, e, p)
    [] e.k = "Relational" -> CodeGen_visitRelational(G, e, p)
    [] e.k = "Logical" -> CodeGen_visitLogical(G, e, p)
    [] e.k = "ArrayAccess" -> CodeGen_visitArrayAccess(G, e, p)
    [] e.k = "Value" -> CodeGen_visitValue(G, e, p)
    [] e.k = "ExprIdent" -> CodeGen_visitExprIdent(G, e, p)
    [] e.k = "Factorial" -> CodeGen_visitFactorial(G, e, p)
    [] e.k = "Ident" -> CodeGen_visitIdent(G, e, p)
    [] e.k = "Function_call" -> CodeGen_visitFunction_call(G, e, p)
    [] e.k = "Map" -> CodeGen_visitStatement_other(G, e, p)
    [] OTHER -> CodeGen_visitChildren(CodeAttribs(G, "", "", <<>>), e, p, 1)

\* the parameter node at p: the var of its name, element type and size
CodeGen_visitParameter(prm, p, d) ==
  LET t1 == getTypeDecor(Decorations, p \o <<1>>, d)
  IN [name |-> prm.name,
      type |-> to_string(IF isArrayTy(t1) THEN getArrayElemType(t1) ELSE t1),
      size |-> getSizeOfType(t1)]

\* the variable_decl node at p: one var per identifier
CodeGen_visitVariable_decl(vd, p, d) ==
  LET t1 == getTypeDecor(Decorations, p \o <<1>>, d)
      size == getSizeOfType(t1)
      tElem == IF isArrayTy(t1) THEN getArrayElemType(t1) ELSE t1
  IN [i \in 1..Len(vd.ids) |->
        [name |-> vd.ids[i], type |-> to_string(tElem), size |-> size]]

CodeGen_visitDeclarations(decls, f, d) ==
  Flatten([j \in 1..Len(decls) |-> CodeGen_visitVariable_decl(decls[j], <<f, 2, j>>, d)])

\* visitFunction adding every parameter by value
CodeGen_visitFunction_begin_byValue(fn, f, d) ==
  LET result == IF fn.ret # ""
                THEN <<[name |-> "_result",
                        type |-> to_string(getTypeDecor(Decorations, <<f, 0>>, d)),
                        isArray |-> FALSE]>>
                ELSE <<>>
      params == [j \in 1..Len(fn.params) |->
                   LET param == CodeGen_visitParameter(fn.params[j], <<f, 1, j>>, d)
                   IN [name |-> param.name, type |-> param.type, isArray |-> FALSE]]
  IN [name |-> fn.name, params |-> result \o params,
      vars |-> CodeGen_visitDeclarations(fn.decls, f, d), code |-> <<>>]

\* visitFunction up to the visit of the statements
CodeGen_visitFunction_begin(fn, f, d) ==
  LET result == IF fn.ret # ""
                THEN <<[name |-> "_result",
                        type |-> to_string(getTypeDecor(Decorations, <<f, 0>>, d)),
                        isArray |-> FALSE]>>
                ELSE <<>>
      params == [j \in 1..Len(fn.params) |->
                   LET param == CodeGen_visitParameter(fn.params[j], <<f, 1, j>>, d)
                       tParam == getTypeDecor(Decorations, <<f, 1, j>>, d)
                   IN [name |-> param.name, type |-> param.type,
                       isArray |-> isArrayTy(tParam)]]
  IN [name |-> fn.name, params |-> result \o params,
      vars |-> CodeGen_visitDeclarations(fn.decls, f, d), code |-> <<>>]

\* the practica visitParameter and visitVariable_decl name the whole type
CodeGenPractica_visitParameter(prm, p, d) ==
  LET t1 == getTypeDecor(Decorations, p \o <<1>>, d)
  IN [name |-> prm.name, type |-> to_string(t1), size |-> getSizeOfType(t1)]

CodeGenPractica_visitVariable_decl(vd, p, d) ==
  LET t1 == getTypeDecor(Decorations, p \o <<1>>, d)
  IN [i \in 1..Len(vd.ids) |->
        [name |-> vd.ids[i], type |-> to_string(t1), size |-> getSizeOfType(t1)]]

\* the practica visitFunction up to the visit of the statements: add_param
\* is called without its by-reference flag
CodeGenPractica_visitFunction_begin(fn, f, d) ==
  LET result == IF fn.ret # ""
                THEN <<[name |-> "_result",
                        type |-> to_string(getTypeDecor(Decorations, <<f, 0>>, d)),
                        isArray |-> FALSE]>>
                ELSE <<>>
      params == [j \in 1..Len(fn.params) |->
                   LET param == CodeGenPractica_visitParameter(fn.params[j], <<f, 1, j>>, d)
                   IN [name |-> param.name, type |-> param.type, isArray |-> FALSE]]
  IN [name |-> fn.name, params |-> result \o params,
      vars |-> Flatten([j \in 1..Len(fn.decls) |->
                 CodeGenPractica_visitVariable_decl(fn.decls[j], <<f, 2, j>>, d)]),
      code |-> <<>>]

(***************************************************************************)
(* The programs the passes run on.                                         *)
(***************************************************************************)
IntArray == ArrayOf(ArraySize, "int")
BoolArray == ArrayOf(ArraySize, "bool")

DeclFuncs ==
  { Func("main", <<>>, "", <<>>, <<ProcCall("f", <<Value("1")>>)>>),
    Func("f", <<Param("x", Basic("int")), Param("x", Basic("float"))>>, "int",
         <<VarDecl(Basic("int"), <<"x", "y", "y">>)>>,
         <<ReturnExpr(ExprIdent("x"))>>),
    Func("f", <<Param("f", Basic("int"))>>, "",
         <<VarDecl(Basic("bool"), <<"g">>), VarDecl(IntArray, <<"g">>)>>,
         <<AssignStmt(LeftIdent("f"), Value("1"))>>),
    Func("g", <<Param("v", IntArray)>>, "float",
         <<VarDecl(Basic("int"), <<"f">>)>>,
         <<AssignStmt(LeftIdent("f"), Value("1")), ReturnExpr(Value("2.5"))>>),
    Func("main", <<Param("x", Basic("int"))>>, "", <<>>, <<>>) }

RECURSIVE SeqsUpTo(_, _)
SeqsUpTo(S, n) ==
  IF n = 0 THEN {<<>>}
  ELSE LET R == SeqsUpTo(S, n - 1)
       IN R \cup {Append(r, x) : r \in R, x \in S}

DeclPrograms == SeqsUpTo(DeclFuncs, MaxFuncs)

\* the functions around the function under test: a callee with a float and
\* an array parameter, and the void, parameterless main
Callee ==
  Func("h", <<Param("q", Basic("float")), Param("w", IntArray)>>, "int",
       <<>>, <<ReturnExpr(Value("1"))>>)
Main == Func("main", <<>>, "", <<>>, <<>>)

\* the function under test: returns ret and runs stmts
Test(ret, stmts) ==
  Func("t", <<Param("p", Basic("int")), Param("v", IntArray), Param("m", BoolArray)>>,
       ret,
       <<VarDecl(Basic("int"), <<"x">>), VarDecl(Basic("float"), <<"y">>),
         VarDecl(Basic("bool"), <<"c">>), VarDecl(Basic("char"), <<"z">>),
         VarDecl(IntArray, <<"a", "b">>), VarDecl(BoolArray, <<"k">>)>>,
       stmts)

TestProgram(ret, stmts) == <<Callee, Main, Test(ret, stmts)>>

\* operands: literals, variables of each type, an array, an undeclared name
Atoms ==
  {Value("1"), Value("2.5"), Value("true"), ExprIdent("x"), ExprIdent("a"),
   ExprIdent("u")}

BinaryExprs ==
  {Arithmetic(op, e1, e2) : op \in {"+", "%"}, e1 \in Atoms, e2 \in Atoms}
  \cup {Relational(op, e1, e2) : op \in {"==", "<"}, e1 \in Atoms, e2 \in Atoms}
  \cup {Logical("and", e1, e2) : e1 \in Atoms, e2 \in Atoms}

UnaryExprs ==
  {Unary(op, e) : op \in {"not", "-"}, e \in Atoms \cup {ExprIdent("y")}}
  \cup {Factorial(e) : e \in Atoms}
  \cup {Parenthesis(e) : e \in Atoms}
  \cup {ArrayAccess(n, e) : n \in {"a", "x", "u"}, e \in {Value("1"), Value("true"), ExprIdent("u")}}
  \cup {Value("'c'"), ExprIdent("y"), ExprIdent("c"), ExprIdent("h"), ExprIdent("v")}

ArgLists ==
  {<<>>, <<Value("1"), ExprIdent("a")>>, <<Value("2.5"), ExprIdent("v")>>,
   <<Value("true"), ExprIdent("a")>>, <<ExprIdent("u"), ExprIdent("a")>>,
   <<Value("1"), Value("1")>>, <<ExprIdent("a")>>,
   <<Value("1"), ExprIdent("a"), ExprIdent("u")>>}

CallExprs == {ExprFunc(n, args) : n \in {"h", "main", "u", "x"}, args \in ArgLists}

LeftExprs ==
  {LeftIdent(n) : n \in {"x", "y", "c", "a", "u", "h"}}
  \cup {LeftIndex(n, e) : n \in {"a", "x", "u"}, e \in {Value("1"), Value("true")}}

ExprStmts ==
  {AssignStmt(LeftIdent("y"), e) : e \in BinaryExprs \cup UnaryExprs \cup CallExprs}
  \cup {AssignStmt(l, e) : l \in LeftExprs,
                           e \in Atoms \cup {ExprIdent("y"), ExprFunc("u", <<>>),
                                             ArrayAccess("b", ExprIdent("x"))}}
  \cup {IfStmt(e, <<WriteString("s")>>) : e \in Atoms \cup {ExprFunc("u", <<>>)}}
  \cup {WhileStmt(e, <<WriteString("s")>>) : e \in Atoms \cup {ExprFunc("u", <<>>)}}
  \cup {IfStmt(Unary("not", e), <<WriteString("s")>>) :
          e \in {ExprIdent("x"), ExprIdent("u")}}
  \cup {WhileStmt(Unary("not", ExprIdent("x")), <<WriteString("s")>>)}
  \cup {WriteExpr(ArrayAccess("x", Value("1"))),
        AssignStmt(LeftIdent("c"), Relational("<", ArrayAccess("x", Value("1")), Value("1")))}
  \cup {AssignStmt(LeftIdent("y"), Arithmetic("+", ArrayAccess("x", Value("true")), e)) :
          e \in {Value("1"), Value("true")}}
  \cup {WriteExpr(e) : e \in Atoms \cup {ExprIdent("h"), ExprFunc("u", <<>>), ExprFunc("main", <<>>)}}
  \cup {ReadStmt(l) : l \in LeftExprs}
  \cup {ProcCall(n, args) : n \in {"h", "main", "u", "x"}, args \in ArgLists}

ReturnPrograms ==
  {TestProgram(ret, <<s>>) :
     ret \in {"", "int", "float", "bool"},
     s \in {ReturnStmt} \cup {ReturnExpr(e) : e \in Atoms \cup {ExprFunc("u", <<>>)}}}

StmtPrograms == {TestProgram("", <<s>>) : s \in ExprStmts} \cup ReturnPrograms

\* statements without semantic errors, for the code generator
IntOperands ==
  {Value("1"), ExprIdent("x"), ArrayAccess("a", Value("1")),
   ArrayAccess("v", ExprIdent("x"))}
X == ExprIdent("x")
Y == ExprIdent("y")

CodeGenExprs ==
  {Arithmetic(op, e1, e2) : op \in {"+", "-", "*", "/", "%"},
                            e1 \in IntOperands, e2 \in IntOperands}
  \cup {Arithmetic(op, e1, e2) : op \in {"*", "%"}, e1 \in {X, Y}, e2 \in {X, Y}}
  \cup {Factorial(e) : e \in IntOperands}
  \cup {Unary(op, e) : op \in {"-", "+"}, e \in IntOperands \cup {Y}}
  \cup {ExprFunc("h", args) : args \in {<<X, ExprIdent("b")>>, <<Y, ExprIdent("v")>>,
                                        <<ArrayAccess("a", Value("1")), ExprIdent("a")>>}}
  \cup {Value("1"), X, ArrayAccess("a", Value("1")), ArrayAccess("v", X)}

CodeGenConds ==
  {Relational(op, e1, e2) : op \in {"==", "!=", ">", "<", ">=", "<="},
                            e1 \in {X, Y, ArrayAccess("v", Value("1"))},
                            e2 \in {X, Y, ArrayAccess("a", Value("1"))}}
  \cup {Relational(op, e1, e2) : op \in {"==", "!="},
                                 e1 \in {ExprIdent("c"), ExprIdent("z")},
                                 e2 \in {Value("true"), Value("'c'")}}
  \cup {Logical(op, e1, e2) : op \in {"and", "or"},
                              e1 \in {ExprIdent("c"), ArrayAccess("k", Value("1"))},
                              e2 \in {Value("false"), ArrayAccess("m", X)}}
  \cup {Unary("not", e) : e \in {ExprIdent("c"), ArrayAccess("m", Value("1"))}}
  \cup {ExprIdent("c"), ArrayAccess("k", Value("1")), ArrayAccess("m", X)}

CodeGenStmts ==
  {AssignStmt(LeftIdent(n), e) : n \in {"x", "y"}, e \in CodeGenExprs}
  \cup {AssignStmt(l, e) : l \in {LeftIndex("a", X), LeftIndex("v", Value("1"))},
                           e \in IntOperands}
  \cup {AssignStmt(LeftIdent(n1), ExprIdent(n2)) : n1 \in {"a", "v"}, n2 \in {"b", "v"}}
  \cup {AssignStmt(LeftIdent("k"), ExprIdent("m")),
        AssignStmt(LeftIdent("z"), Value("'c'")),
        AssignStmt(LeftIdent("z"), ExprIdent("z")),
        AssignStmt(LeftIdent("y"), Value("2.5")),
        AssignStmt(LeftIndex("k", Value("0")), ArrayAccess("m", Value("1")))}
  \cup {AssignStmt(LeftIdent("c"), e) : e \in CodeGenConds}
  \cup {IfStmt(e, <<WriteString("s")>>) : e \in CodeGenConds}
  \cup {WhileStmt(e, <<WriteString("s")>>) : e \in CodeGenConds}
  \cup {ReadStmt(l) : l \in {LeftIdent("z"), LeftIndex("a", X), LeftIndex("v", X),
                             LeftIndex("m", Value("1"))}}
  \cup {WriteExpr(e) : e \in CodeGenExprs \cup {Y, ExprIdent("z"), ExprIdent("c")}}
  \cup {ProcCall("h", <<X, ExprIdent("b")>>), ProcCall("main", <<>>)}
  \cup {IfStmt(ExprIdent("c"),
                <<WhileStmt(Relational("<", ExprIdent("x"), Value("3")),
                            <<WriteString("s"),
                              AssignStmt(LeftIdent("x"),
                                         Arithmetic("+", ExprIdent("x"), Value("1")))>>)>>)}
  \cup {IfElseStmt(ExprIdent("c"), <<WriteString("s")>>,
                   <<WhileStmt(Relational("<", X, Value("3")),
                               <<AssignStmt(LeftIdent("x"),
                                            Arithmetic("+", X, Value("1")))>>)>>)}
  \cup {IfElseStmt(e, <<WriteString("s"), AssignStmt(LeftIdent("x"), Value("1"))>>,
                       <<AssignStmt(LeftIdent("x"), Value("2")), WriteString("t")>>) :
          e \in {ExprIdent("c"), ArrayAccess("k", Value("1")), ArrayAccess("m", X),
                 Relational("<", X, Y)}}

\* two statements in one function: the counters run on
Pairs ==
  {AssignStmt(LeftIdent("c"), Relational("!=", X, Value("1"))),
   AssignStmt(LeftIdent("a"), ExprIdent("v")),
   AssignStmt(LeftIdent("x"), Factorial(X)),
   IfStmt(ArrayAccess("m", Value("1")), <<WriteString("s")>>),
   WhileStmt(ExprIdent("c"), <<AssignStmt(LeftIdent("x"), Value("1"))>>)}

CodeGenPrograms ==
  {TestProgram("", <<s>>) : s \in CodeGenStmts}
  \cup {TestProgram("", <<s1, s2>>) : s1 \in Pairs, s2 \in Pairs}
  \cup {TestProgram(ret, <<ReturnExpr(e)>>) :
          ret \in {"int", "float"}, e \in {X, Value("1"), ArrayAccess("v", Value("1"))}}
  \cup {TestProgram("", <<s>>) :
          s \in {IfStmt(ExprIdent("c"), <<WriteString("s"), ReturnStmt>>),
                 WhileStmt(ExprIdent("c"), <<ReturnStmt, WriteString("s")>>)}}
  \cup {TestProgram("int", <<s, ReturnExpr(Value("1"))>>) :
          s \in {IfStmt(ExprIdent("c"), <<ReturnExpr(ExprIdent("x"))>>),
                 WhileStmt(ExprIdent("c"), <<ReturnExpr(Arithmetic("+", ExprIdent("x"), Value("1")))>>)}}
  \cup {TestProgram("", <<AssignStmt(LeftIdent("y"), ExprFunc("h", <<a1, a2>>)),
                           ProcCall("main", <<>>)>>) :
          a1 \in {X, ExprFunc("h", <<X, ExprIdent("b")>>)},
          a2 \in {ExprIdent("b"), ExprIdent("v")}}

\* calls of a void function with one array formal, given a local array and
\* an array parameter
ArrayCallee == Func("f", <<Param("v", IntArray)>>, "", <<>>, <<>>)
ArrayCallPrograms ==
  {<<ArrayCallee, Main, Test("", <<ProcCall("f", <<ExprIdent(n)>>)>>)>> : n \in {"a", "v"}}

\* whole-array assignments between arrays without elements
EmptyArray == ArrayOf(0, "int")
EmptyArrayPrograms ==
  {<<Main, Func("t", <<Param("v", EmptyArray)>>, "",
                <<VarDecl(EmptyArray, <<"a", "b">>)>>,
                <<AssignStmt(LeftIdent(n1), ExprIdent(n2))>>)>> :
     n1 \in {"a", "v"}, n2 \in {"b", "v"}}

\* if, if/else and while nested up to depth n; a while tests a factorial
RECURSIVE Nest(_)
Nest(n) ==
  IF n = 0 THEN {WriteString("s")}
  ELSE LET N == Nest(n - 1)
       IN N \cup {IfStmt(ExprIdent("c"), <<s>>) : s \in N}
            \cup {IfElseStmt(ExprIdent("c"), <<s1>>, <<s2>>) : s1 \in N, s2 \in Nest(1 - 1)}
            \cup {IfElseStmt(ExprIdent("c"), <<s1>>, <<s2>>) : s1 \in Nest(1 - 1), s2 \in N}
            \cup {WhileStmt(Relational("<", Factorial(X), Value("3")), <<s>>) : s \in N}

NestPrograms ==
  {TestProgram("", <<s1, s2>>) : s1 \in Nest(MaxNest), s2 \in Nest(1)}

\* the assignment x := y + 1 where neither x nor y is declared
UndeclaredProgram ==
  <<Func("main", <<>>, "", <<>>,
         <<AssignStmt(LeftIdent("x"), Arithmetic("+", ExprIdent("y"), Value("1")))>>)>>

\* a matrix as local variable and as parameter
IntMatrix == MatrixOf(ArraySize, ArraySize + 1, "int")
MatrixPrograms ==
  {<<Func("g", <<Param("n", MatrixOf(ArraySize, ArraySize, "float"))>>, "",
          <<VarDecl(IntMatrix, <<"mx">>)>>, stmts), Main>> :
     stmts \in {<<>>, <<WriteExpr(ExprIdent("mx"))>>}}

\* powers and maps
PowerStmts ==
  {AssignStmt(LeftIdent(n), Potencia(e1, e2)) :
     n \in {"x", "y"}, e1 \in {X, Y, ExprIdent("c")}, e2 \in {X, Y, Value("2")}}
  \cup {WriteExpr(Potencia(Potencia(Y, X), Value("2")))}
MapStmts ==
  {Map(a, b, f) : a \in {"a", "x"}, b \in {"b", "k", "u"}, f \in {"h", "x", "main"}}
\* a function without parameters as the function of a map
Zero == Func("z0", <<>>, "int", <<>>, <<ReturnExpr(Value("0"))>>)
ZeroMapPrograms ==
  {<<Zero, Main, Test("", before \o <<Map("a", b, "z0")>>)>> :
     before \in {<<>>, <<WriteExpr(Factorial(X))>>}, b \in {"b", "k"}}
\* two functions of the same text, after one another; calls of h with one
\* and with two arguments more than h has parameters
Twin(stmts) == [Test("", stmts) EXCEPT !.name = "t2"]
TwinStmts ==
  {AssignStmt(LeftIdent("x"), ExprFunc("h", <<Value("1"), ExprIdent("a")>> \o more)) :
     more \in {<<Value("2")>>, <<Value("2"), Value("3")>>}}
  \cup {AssignStmt(LeftIdent("x"), Arithmetic("+", X, Value("1"))),
        WhileStmt(ExprIdent("c"), <<AssignStmt(LeftIdent("x"), Factorial(X))>>)}
TwinPrograms == {<<Callee, Main, Test("", <<s>>), Twin(<<s>>)>> : s \in TwinStmts}

PowerMapPrograms ==
  {TestProgram("", <<s>>) : s \in PowerStmts \cup MapStmts} \cup ZeroMapPrograms

Programs ==
  DeclPrograms \cup StmtPrograms \cup CodeGenPrograms \cup NestPrograms
  \cup ArrayCallPrograms \cup EmptyArrayPrograms
  \cup MatrixPrograms \cup PowerMapPrograms \cup TwinPrograms
  \cup {UndeclaredProgram}

Variants == {"examen", "practica"}

(***************************************************************************)
(* The walk.                                                               *)
(***************************************************************************)
At(pass, fn, at, i) == [pass |-> pass, fn |-> fn, at |-> at, i |-> i]

EmptyCounters == [temp |-> 0, lif |-> 0, lwhile |-> 0]
EmptyTraversal == [vis |-> {}, again |-> {}, rdT |-> {}, rdL |-> {}]
NoSubr == [name |-> "", params |-> <<>>, vars |-> <<>>, code |-> <<>>]

\* the machine before any code is loaded
NoMachine ==
  [status |-> "off", sub |-> 0, ip |-> 0, mem |-> [a \in {} |-> 0],
   operand |-> 0, taken |-> 0, from |-> 0, how |-> "start"]

Init ==
  /\ variant \in Variants
  /\ tree \in Programs
  /\ pc = At("symbols", 0, "enter", 0)
  /\ Symbols = EmptySymTable
  /\ Decorations = EmptyDecorations
  /\ Errors = EmptyErrors
  /\ unsetTy = NoTy
  /\ lParamsTy = <<>>
  /\ currFunctionType = NoTy
  /\ codeCounters = EmptyCounters
  /\ subr = NoSubr
  /\ my_code = <<>>
  /\ traversal = EmptyTraversal
  /\ vm = NoMachine

\* what a read past the end of a function type's parameter list may yield
StrayTypeIds == DefaultTypeIds \cup {createArrayTy(ArraySize, createIntegerTy)}
\* the visit of a statement before any read past the end of a parameter list
NoStray == [g |-> <<>>, fault |-> 0]
\* a read past the end the choices c do not cover yet either yields any type
\* or faults
StrayNext(c) ==
  {[g |-> c.g \o <<t>>, fault |-> 0] : t \in StrayTypeIds}
  \cup {[g |-> c.g, fault |-> Len(c.g) + 1]}

\* the types a never written decoration may read as in this run
UnsetChoices == IF unsetTy = NoTy THEN DefaultTypeIds ELSE {unsetTy}

\* the position after the program's enter or after function f
NextFunction(pass, f) ==
  IF f < Len(tree) THEN At(pass, f + 1, "enter", 0) ELSE At(pass, 0, "exit", 0)

\* the position in function f of the symbols pass after (at, i)
SymbolsAfter(f, at, i) ==
  LET np == Len(tree[f].params)
      nd == Len(tree[f].decls)
  IN IF at = "enter" /\ np > 0 THEN At("symbols", f, "params", 1)
     ELSE IF at = "params" /\ i < np THEN At("symbols", f, "params", i + 1)
     ELSE IF at \in {"enter", "params"} /\ nd > 0 THEN At("symbols", f, "decls", 1)
     ELSE IF at = "decls" /\ i < nd THEN At("symbols", f, "decls", i + 1)
     ELSE At("symbols", f, "exit", 0)

SymbolsProgramEnter ==
  /\ pc = At("symbols", 0, "enter", 0)
  /\ LET st == pushNewScope(Symbols, GLOBAL_SCOPE_NAME)
     IN /\ Symbols' = st
        /\ Decorations' = putScopeDecor(Decorations, <<>>, currentScope(st))
  /\ pc' = NextFunction("symbols", 0)
  /\ UNCHANGED <<vm, variant, tree, Errors, unsetTy, lParamsTy, currFunctionType,
                 codeCounters, subr, my_code, traversal>>

SymbolsFunctionEnter ==
  /\ pc.pass = "symbols" /\ pc.fn > 0 /\ pc.at = "enter"
  /\ LET st == pushNewScope(Symbols, tree[pc.fn].name)
     IN /\ Symbols' = st
        /\ Decorations' = putScopeDecor(Decorations, <<pc.fn>>, currentScope(st))
  /\ lParamsTy' = <<>>
  /\ pc' = SymbolsAfter(pc.fn, "enter", 0)
  /\ UNCHANGED <<vm, variant, tree, Errors, unsetTy, currFunctionType,
                 codeCounters, subr, my_code, traversal>>

SymbolsParameter ==
  /\ pc.pass = "symbols" /\ pc.fn > 0 /\ pc.at = "params"
  /\ \E d \in UnsetChoices :
       LET p == <<pc.fn, 1, pc.i>>
           W == Symbols_visitParameter(World(Symbols, Decorations, Errors.list),
                                       tree[pc.fn].params[pc.i], p, d)
       IN /\ Symbols' = W.sym
          /\ Decorations' = W.dec
          /\ Errors' = [Errors EXCEPT !.list = W.err]
          /\ lParamsTy' = Append(lParamsTy, getTypeDecor(W.dec, p, d))
          /\ unsetTy' = IF hasType(W.dec, p) THEN unsetTy ELSE d
  /\ pc' = SymbolsAfter(pc.fn, "params", pc.i)
  /\ UNCHANGED <<vm, variant, tree, currFunctionType, codeCounters, subr, my_code,
                 traversal>>

SymbolsVariableDecl ==
  /\ pc.pass = "symbols" /\ pc.fn > 0 /\ pc.at = "decls"
  /\ LET W == Symbols_visitVariable_decl(World(Symbols, Decorations, Errors.list),
                                         tree[pc.fn].decls[pc.i], <<pc.fn, 2, pc.i>>, NoTy)
     IN /\ Symbols' = W.sym
        /\ Decorations' = W.dec
        /\ Errors' = [Errors EXCEPT !.list = W.err]
  /\ pc' = SymbolsAfter(pc.fn, "decls", pc.i)
  /\ UNCHANGED <<vm, variant, tree, unsetTy, lParamsTy, currFunctionType,
                 codeCounters, subr, my_code, traversal>>

SymbolsFunctionExit ==
  /\ pc.pass = "symbols" /\ pc.fn > 0 /\ pc.at = "exit"
  /\ LET W == Symbols_visitFunction_end(World(Symbols, Decorations, Errors.list),
                                       tree[pc.fn], pc.fn, lParamsTy, NoTy)
     IN /\ Symbols' = W.sym
        /\ Decorations' = W.dec
        /\ Errors' = [Errors EXCEPT !.list = W.err]
  /\ pc' = NextFunction("symbols", pc.fn)
  /\ UNCHANGED <<vm, variant, tree, unsetTy, lParamsTy, currFunctionType,
                 codeCounters, subr, my_code, traversal>>

SymbolsProgramExit ==
  /\ pc = At("symbols", 0, "exit", 0)
  /\ Symbols' = popScope(Symbols)
  /\ pc' = At("typecheck", 0, "enter", 0)
  /\ UNCHANGED <<vm, variant, tree, Decorations, Errors, unsetTy, lParamsTy,
                 currFunctionType, codeCounters, subr, my_code, traversal>>

\* whether the visit read a type decoration nobody wrote
readUnset(T) == \E p \in T.rdT : ~hasType(T.dec, p)

TypeCheckAfter(f, i) ==
  IF i < Len(tree[f].stmts) THEN At("typecheck", f, "stmts", i + 1)
  ELSE At("typecheck", f, "exit", 0)

TypeCheckProgramEnter ==
  /\ pc = At("typecheck", 0, "enter", 0)
  /\ Symbols' = pushThisScope(Symbols, getScopeDecor(Decorations, <<>>))
  /\ pc' = NextFunction("typecheck", 0)
  /\ UNCHANGED <<vm, variant, tree, Decorations, Errors, unsetTy, lParamsTy,
                 currFunctionType, codeCounters, subr, my_code, traversal>>

TypeCheckFunctionEnter ==
  /\ pc.pass = "typecheck" /\ pc.fn > 0 /\ pc.at = "enter"
  /\ Symbols' = pushThisScope(Symbols, getScopeDecor(Decorations, <<pc.fn>>))
  /\ \E d \in UnsetChoices :
       /\ currFunctionType' = getTypeDecor(Decorations, <<pc.fn>>, d)
       /\ unsetTy' = IF hasType(Decorations, <<pc.fn>>) THEN unsetTy ELSE d
  /\ pc' = TypeCheckAfter(pc.fn, 0)
  /\ UNCHANGED <<vm, variant, tree, Decorations, Errors, lParamsTy,
                 codeCounters, subr, my_code, traversal>>

\* the visits of one statement: each read past the end of a parameter list
\* is settled when the visit comes to it, C being the choices made so far
RECURSIVE TypeCheckOutcomes(_, _, _, _)
TypeCheckOutcomes(T0, stmt, p, C) ==
  LET R == {[c |-> c,
             T |-> visit(variant, [T0 EXCEPT !.g = c.g, !.fault = c.fault], stmt, p)] :
              c \in C}
      open == {r \in R : r.c.fault = 0 /\ r.T.oob > Len(r.c.g)}
  IN {r.T : r \in R \ open}
     \cup IF open = {} THEN {}
          ELSE TypeCheckOutcomes(T0, stmt, p, UNION {StrayNext(r.c) : r \in open})

\* one statement of visitStatements' visitChildren
TypeCheckStatement ==
  /\ pc.pass = "typecheck" /\ pc.fn > 0 /\ pc.at = "stmts"
  /\ \E d \in UnsetChoices :
       \E T \in TypeCheckOutcomes(TCState(Decorations, Errors.list, traversal, d),
                                  tree[pc.fn].stmts[pc.i], <<pc.fn, 3, pc.i>>, {NoStray}) :
         /\ Decorations' = T.dec
         /\ Errors' = [Errors EXCEPT !.list = T.err]
         /\ traversal' = [vis |-> T.vis, again |-> T.again, rdT |-> T.rdT,
                           rdL |-> T.rdL]
         /\ unsetTy' = IF readUnset(T) THEN d ELSE unsetTy
         /\ pc' = IF T.crash THEN At("crashed", pc.fn, "stmts", pc.i)
                  ELSE TypeCheckAfter(pc.fn, pc.i)
  /\ UNCHANGED <<vm, variant, tree, Symbols, lParamsTy, currFunctionType,
                 codeCounters, subr, my_code>>

TypeCheckFunctionExit ==
  /\ pc.pass = "typecheck" /\ pc.fn > 0 /\ pc.at = "exit"
  /\ Symbols' = popScope(Symbols)
  /\ pc' = NextFunction("typecheck", pc.fn)
  /\ UNCHANGED <<vm, variant, tree, Decorations, Errors, unsetTy, lParamsTy,
                 currFunctionType, codeCounters, subr, my_code, traversal>>

\* the code generator runs only on a program without semantic errors
TypeCheckProgramExit ==
  /\ pc = At("typecheck", 0, "exit", 0)
  /\ LET el == IF noMainProperlyDeclared(Symbols)
               THEN addError(Errors.list, "NoMainProperlyDeclared", <<>>)
               ELSE Errors.list
     IN /\ Errors' = print([Errors EXCEPT !.list = el])
        /\ pc' = IF el = <<>>
                 THEN At("codegen", 0, "enter", 0)
                 ELSE At("done", 0, "exit", 0)
  /\ Symbols' = popScope(Symbols)
  /\ UNCHANGED <<vm, variant, tree, Decorations, unsetTy, lParamsTy,
                 currFunctionType, codeCounters, subr, my_code, traversal>>

CodeGenAfter(f, i) ==
  IF i < Len(tree[f].stmts) THEN At("codegen", f, "stmts", i + 1)
  ELSE At("codegen", f, "exit", 0)

CodeGenProgramEnter ==
  /\ pc = At("codegen", 0, "enter", 0)
  /\ Symbols' = pushThisScope(Symbols, getScopeDecor(Decorations, <<>>))
  /\ my_code' = <<>>
  /\ pc' = NextFunction("codegen", 0)
  /\ UNCHANGED <<vm, variant, tree, Decorations, Errors, unsetTy, lParamsTy,
                 currFunctionType, codeCounters, subr, traversal>>

\* visitFunction up to its statements: scope, counters, parameters, locals
CodeGenFunctionEnter ==
  /\ pc.pass = "codegen" /\ pc.fn > 0 /\ pc.at = "enter"
  /\ Symbols' = pushThisScope(Symbols, getScopeDecor(Decorations, <<pc.fn>>))
  /\ codeCounters' = EmptyCounters
  /\ subr' = IF variant = "practica"
             THEN CodeGenPractica_visitFunction_begin(tree[pc.fn], pc.fn, unsetTy)
             ELSE CodeGen_visitFunction_begin(tree[pc.fn], pc.fn, unsetTy)
  /\ pc' = CodeGenAfter(pc.fn, 0)
  /\ UNCHANGED <<vm, variant, tree, Decorations, Errors, unsetTy, lParamsTy,
                 currFunctionType, my_code, traversal>>

\* the lowerings of one statement: each read past the end of a parameter
\* list is settled when the visit comes to it, C being the choices made so far
RECURSIVE CodeGenOutcomes(_, _, _, _)
CodeGenOutcomes(G0, stmt, p, C) ==
  LET R == {[c |-> c,
             G |-> CodeGen_visit([G0 EXCEPT !.g = c.g, !.fault = c.fault], stmt, p)] :
              c \in C}
      open == {r \in R : r.c.fault = 0 /\ r.G.oob > Len(r.c.g)}
  IN {r.G : r \in R \ open}
     \cup IF open = {} THEN {}
          ELSE CodeGenOutcomes(G0, stmt, p, UNION {StrayNext(r.c) : r \in open})

\* one statement of visitStatements' loop
CodeGenStatement ==
  /\ pc.pass = "codegen" /\ pc.fn > 0 /\ pc.at = "stmts"
  /\ \E d \in UnsetChoices :
       \E G \in CodeGenOutcomes(CGState(codeCounters, d),
                                tree[pc.fn].stmts[pc.i], <<pc.fn, 3, pc.i>>, {NoStray}) :
         /\ subr' = IF G.crash THEN subr ELSE [subr EXCEPT !.code = @ \o G.code]
         /\ codeCounters' = G.cnt
         /\ unsetTy' = IF \E p \in G.rd : ~hasType(Decorations, p) THEN d ELSE unsetTy
         /\ pc' = IF G.crash THEN At("aborted", pc.fn, "stmts", pc.i)
                  ELSE CodeGenAfter(pc.fn, pc.i)
  /\ UNCHANGED <<vm, variant, tree, Symbols, Decorations, Errors, lParamsTy,
                 currFunctionType, my_code, traversal>>

\* visitFunction returning without popping the function's scope
CodeGenFunctionExit_unpopped ==
  /\ pc.pass = "codegen" /\ pc.fn > 0 /\ pc.at = "exit"
  /\ LET done == [subr EXCEPT !.code = @ \o <<instruction("RETURN", "", "", "")>>]
     IN /\ subr' = done
        /\ my_code' = Append(my_code, done)
  /\ pc' = NextFunction("codegen", pc.fn)
  /\ UNCHANGED <<vm, variant, tree, Symbols, Decorations, Errors, unsetTy, lParamsTy,
                 currFunctionType, codeCounters, traversal>>

\* visitFunction after its statements, and add_subroutine in visitProgram
CodeGenFunctionExit ==
  /\ pc.pass = "codegen" /\ pc.fn > 0 /\ pc.at = "exit"
  /\ LET done == [subr EXCEPT !.code = @ \o <<instruction("RETURN", "", "", "")>>]
     IN /\ subr' = done
        /\ my_code' = Append(my_code, done)
  /\ Symbols' = popScope(Symbols)
  /\ pc' = NextFunction("codegen", pc.fn)
  /\ UNCHANGED <<vm, variant, tree, Decorations, Errors, unsetTy, lParamsTy,
                 currFunctionType, codeCounters, traversal>>

CodeGenProgramExit ==
  /\ pc = At("codegen", 0, "exit", 0)
  /\ Symbols' = popScope(Symbols)
  /\ pc' = At("done", 0, "exit", 1)
  /\ UNCHANGED <<vm, variant, tree, Decorations, Errors, unsetTy, lParamsTy,
                 currFunctionType, codeCounters, subr, my_code, traversal>>

Next ==
  \/ SymbolsProgramEnter
  \/ SymbolsFunctionEnter
  \/ SymbolsParameter
  \/ SymbolsVariableDecl
  \/ SymbolsFunctionExit
  \/ SymbolsProgramExit
  \/ TypeCheckProgramEnter
  \/ TypeCheckFunctionEnter
  \/ TypeCheckStatement
  \/ TypeCheckFunctionExit
  \/ TypeCheckProgramExit
  \/ CodeGenProgramEnter
  \/ CodeGenFunctionEnter
  \/ CodeGenStatement
  \/ CodeGenFunctionExit
  \/ CodeGenProgramExit

Spec == Init /\ [][Next]_vars

(***************************************************************************)
(* What the properties below talk about.                                   *)
(***************************************************************************)
\* the nodes below (and including) node e at path p
RECURSIVE SubNodes(_, _)
SubNodes(e, p) ==
  {[at |-> p, node |-> e]}
  \cup UNION {SubNodes(e.c[i], p \o <<i>>) : i \in DOMAIN e.c}

\* the nodes of the statements of the program
StmtNodes ==
  UNION {UNION {SubNodes(tree[f].stmts[k], <<f, 3, k>>) : k \in DOMAIN tree[f].stmts}
         : f \in DOMAIN tree}

\* statement k of function f has been type-checked
StmtChecked(f, k) ==
  \/ pc.pass \in {"codegen", "done", "aborted"}
  \/ /\ pc.pass = "typecheck"
     /\ \/ pc.fn = 0 /\ pc.at = "exit"
        \/ pc.fn > f
        \/ pc.fn = f /\ (pc.at = "exit" \/ (pc.at = "stmts" /\ pc.i > k))
  \/ pc.pass = "crashed" /\ (pc.fn > f \/ (pc.fn = f /\ pc.i > k))

NodeChecked(p) == StmtChecked(p[1], p[3])

TypeAt(p) == getTypeDecor(Decorations, p, unsetTy)
Emitted(kind, p) == Err(kind, p) \in Range(Errors.list)

\* the type a basic type keyword ("" for none) and a type node denote
BasicTy(b) ==
  CASE b = "int" -> createIntegerTy
    [] b = "float" -> createFloatTy
    [] b = "bool" -> createBooleanTy
    [] b = "char" -> createCharacterTy
    [] OTHER -> createVoidTy
TypeOfNode(tn) ==
  IF tn.arr THEN createArrayTy(tn.size, BasicTy(tn.basic))
  ELSE IF tn.mat THEN createMatrixTy(tn.size, tn.cols, BasicTy(tn.basic))
  ELSE BasicTy(tn.basic)

\* the names function f declares, in order: its parameters, then its locals
Declared(f) ==
  [j \in DOMAIN tree[f].params |->
     [name |-> tree[f].params[j].name, at |-> <<f, 1, j>>, cls |-> "Parameter",
      ty |-> TypeOfNode(tree[f].params[j].type)]]
  \o Flatten([j \in DOMAIN tree[f].decls |->
       [i \in DOMAIN tree[f].decls[j].ids |->
          [name |-> tree[f].decls[j].ids[i], at |-> <<f, 2, j, 2, i>>,
           cls |-> "LocalVar", ty |-> TypeOfNode(tree[f].decls[j].type)]]])

IsFirst(seq, i) == \A j \in 1..(i - 1) : seq[j].name # seq[i].name
FirstsOf(seq) == SelectSeq([i \in DOMAIN seq |-> [seq[i] EXCEPT !.at = IsFirst(seq, i)]],
                           LAMBDA x : x.at)
FunctionNames == {tree[f].name : f \in DOMAIN tree}
FirstFunction(f) == \A g \in 1..(f - 1) : tree[g].name # tree[f].name
AfterSymbols == pc.pass # "symbols"
InsideFunction(st, f) == [st EXCEPT !.stack = <<0, f>>]

(***************************************************************************)
(* C1.  Stated: in the examen type check no check emits an error when one  *)
(* of the operand types it inspects is ErrorTy.  The checks of a node n at *)
(* p, each with the error it emits, where, and the operands it inspects:   *)
(***************************************************************************)
Checks(n) ==
  LET p == n.at
      e == n.node
      one(kind, at, ops) == [kind |-> kind, at |-> at, ops |-> ops, node |-> e]
  IN CASE e.k = "AssignStmt" ->
            {one("IncompatibleAssignment", p, {p \o <<1>>, p \o <<2>>}),
             one("NonReferenceableLeftExpr", p \o <<1>>, {p \o <<1>>})}
       [] e.k \in {"Arithmetic", "Relational", "Logical"} ->
            {one("IncompatibleOperator", p, {p \o <<1>>, p \o <<2>>})}
       [] e.k = "Unary" -> {one("IncompatibleOperator", p, {p \o <<1>>})}
       [] e.k \in {"IfStmt", "WhileStmt"} -> {one("BooleanRequired", p, {p \o <<1>>})}
       [] e.k = "ReadStmt" ->
            {one("ReadWriteRequireBasic", p, {p \o <<1>>}),
             one("NonReferenceableExpression", p, {p \o <<1>>})}
       [] e.k = "WriteExpr" -> {one("ReadWriteRequireBasic", p, {p \o <<1>>})}
       [] e.k \in {"ArrayAccess", "Left_expr"} /\ Len(e.c) > 1 ->
            {one("NonArrayInArrayAccess", p, {p \o <<1>>}),
             one("NonIntegerIndexInArrayAccess", p \o <<2>>, {p \o <<2>>})}
       [] e.k = "Function_call" ->
            {one("IsNotCallable", p \o <<1>>, {p \o <<1>>})}
            \cup {one("IncompatibleParameter", p \o <<i>>, {p \o <<i>>}) : i \in 2..Len(e.c)}
       [] e.k = "ReturnStmt" /\ Len(e.c) > 0 ->
            {one("IncompatibleReturn", p, {p \o <<1>>})}
       [] OTHER -> {}

\* the checks done so far that inspected an operand of type ErrorTy
ChecksOnError ==
  {chk \in UNION {Checks(n) : n \in {m \in StmtNodes : NodeChecked(m.at)}} :
     \E o \in chk.ops : isErrorTy(TypeAt(o))}

\* the operand type the operator of an arithmetic or logical node accepts
Accepts(e, t) ==
  CASE e.k = "Arithmetic" /\ e.s = "%" -> isIntegerTy(t)
    [] e.k = "Arithmetic" /\ e.s # "%" -> isNumericTy(t)
    [] e.k = "Logical" -> isBooleanTy(t)
    [] OTHER -> TRUE

\* C1: a check that inspects an ErrorTy operand emits nothing
ErrorOperandSilences ==
  variant = "examen" => \A chk \in ChecksOnError : ~Emitted(chk.kind, chk.at)


(***************************************************************************)
(* C2.  Stated: after the type check every expression, left-expression and *)
(* function_call node the traversal reached has its type and its isLValue  *)
(* written, and no visitor read a decoration that was never written.       *)
(***************************************************************************)
DecorationsComplete ==
  /\ \A p \in traversal.vis : hasType(Decorations, p) /\ hasIsLValue(Decorations, p)
  /\ \A p \in traversal.rdT : hasType(Decorations, p)
  /\ \A p \in traversal.rdL : hasIsLValue(Decorations, p)

ScopeName(sc) == Symbols.scopes[sc + 1].name

(***************************************************************************)
(* C3.  The scope stack is balanced in each pass: empty outside            *)
(* visitProgram, [global] between functions, [global, f's scope] while     *)
(* function f's parameters, declarations or statements are visited.        *)
(***************************************************************************)
ScopeStackBalanced ==
  /\ pc.pass \in {"symbols", "typecheck", "codegen"} /\ pc.fn = 0 /\ pc.at = "enter"
       => Symbols.stack = <<>>
  /\ pc.pass = "done" => Symbols.stack = <<>>
  /\ pc.pass \in {"symbols", "typecheck", "codegen"}
     /\ ((pc.fn = 0 /\ pc.at = "exit") \/ (pc.fn > 0 /\ pc.at = "enter"))
       => Symbols.stack = <<0>> /\ ScopeName(0) = GLOBAL_SCOPE_NAME
  /\ pc.pass \in {"symbols", "typecheck", "codegen", "crashed", "aborted"}
     /\ pc.fn > 0 /\ pc.at # "enter"
       => /\ Symbols.stack = <<0, pc.fn>>
          /\ ScopeName(0) = GLOBAL_SCOPE_NAME
          /\ ScopeName(pc.fn) = tree[pc.fn].name

\* the code generator inside the last of several functions
ScopeStackWitness ==
  /\ pc.pass = "codegen" /\ pc.at = "stmts"
  /\ pc.fn = Len(tree) /\ pc.fn > 1
  /\ Symbols.stack = <<0, pc.fn>>

(***************************************************************************)
(* C4.  Symbols pass: a function symbol is added after the function's      *)
(* scope is popped, to the global scope and never to the function's own;   *)
(* afterwards every function is found from inside every function, and a   *)
(* parameter or local named like a function is accepted and shadows it.    *)
(***************************************************************************)
FunctionAddedAfterPop ==
  /\ \A sc \in 1..(Len(Symbols.scopes) - 1) :
       \A i \in DOMAIN SymsOf(Symbols, sc) : SymsOf(Symbols, sc)[i].cls # "Function"
  /\ pc.pass = "symbols" /\ pc.fn > 0 /\ pc.at # "enter" /\ FirstFunction(pc.fn)
       => ~HasSym(Symbols, 0, tree[pc.fn].name)
  /\ AfterSymbols =>
       \A f \in DOMAIN tree :
         /\ \A g \in DOMAIN tree :
              findInStack(InsideFunction(Symbols, g), tree[f].name) # -1
         /\ isFunctionClass([Symbols EXCEPT !.stack = <<0>>], tree[f].name)
         /\ \A i \in DOMAIN Declared(f) :
              IsFirst(Declared(f), i) /\ Declared(f)[i].name \in FunctionNames
                => /\ ~Emitted("DeclaredIdent", Declared(f)[i].at)
                   /\ Lookup(InsideFunction(Symbols, f), Declared(f)[i].name).cls
                        = Declared(f)[i].cls

\* a later sibling is visible from an earlier function, and a function
\* declares a local or parameter that carries a function's name
FunctionAddedWitness ==
  /\ pc.pass = "typecheck" /\ Len(tree) > 1
  /\ tree[1].name # tree[2].name
  /\ findInStack(InsideFunction(Symbols, 1), tree[2].name) = 0
  /\ \E f \in DOMAIN tree : \E i \in DOMAIN Declared(f) :
       /\ Declared(f)[i].name \in FunctionNames
       /\ ~isFunctionClass(InsideFunction(Symbols, f), Declared(f)[i].name)

(***************************************************************************)
(* C5.  Symbols pass: a name already in the current scope gets one         *)
(* DeclaredIdent at that occurrence and the first declaration stays; no    *)
(* scope ever holds a name twice.                                          *)
(***************************************************************************)
FirstDeclarationWins ==
  /\ \A sc \in 0..(Len(Symbols.scopes) - 1) :
       \A i, j \in DOMAIN SymsOf(Symbols, sc) :
         SymsOf(Symbols, sc)[i].name = SymsOf(Symbols, sc)[j].name => i = j
  /\ AfterSymbols =>
       /\ \A f \in DOMAIN tree :
            /\ Emitted("DeclaredIdent", <<f>>) <=> ~FirstFunction(f)
            /\ \A i \in DOMAIN Declared(f) :
                 Emitted("DeclaredIdent", Declared(f)[i].at) <=> ~IsFirst(Declared(f), i)
            /\ [i \in DOMAIN SymsOf(Symbols, f) |->
                  [name |-> SymsOf(Symbols, f)[i].name, cls |-> SymsOf(Symbols, f)[i].cls,
                   ty |-> SymsOf(Symbols, f)[i].ty]]
               = [i \in DOMAIN FirstsOf(Declared(f)) |->
                    [name |-> FirstsOf(Declared(f))[i].name,
                     cls |-> FirstsOf(Declared(f))[i].cls,
                     ty |-> FirstsOf(Declared(f))[i].ty]]
       /\ \A i \in DOMAIN Errors.list :
            Errors.list[i].kind = "DeclaredIdent" =>
              \A j \in DOMAIN Errors.list : Errors.list[j] = Errors.list[i] => j = i
       /\ Len(SymsOf(Symbols, 0)) = Cardinality(FunctionNames)

\* a parameter, a local and a function were each declared twice
FirstDeclarationWitness ==
  /\ pc.pass = "typecheck"
  /\ \E f \in DOMAIN tree : Emitted("DeclaredIdent", <<f>>)
  /\ \E f \in DOMAIN tree : Emitted("DeclaredIdent", <<f, 1, 2>>)
  /\ \E f \in DOMAIN tree : Emitted("DeclaredIdent", <<f, 2, 1, 2, 1>>)

UndeclaredIn(f, n) == findInStack(InsideFunction(Symbols, f), n) = -1

(***************************************************************************)
(* C6.  The assignment x := y + 1 with neither name declared yields        *)
(* exactly UndeclaredIdent for x, then UndeclaredIdent for y; an           *)
(* undeclared identifier is decorated ErrorTy and referenceable, so the    *)
(* assignment or read whose left side it is adds no error of its own.      *)
(***************************************************************************)
UndeclaredDoesNotCascade ==
  /\ tree = UndeclaredProgram /\ pc.pass = "done"
       => Errors.list = <<Err("UndeclaredIdent", <<1, 3, 1, 1, 1>>),
                          Err("UndeclaredIdent", <<1, 3, 1, 2, 1, 1>>)>>
  /\ \A f \in DOMAIN tree : \A k \in DOMAIN tree[f].stmts :
       LET s == tree[f].stmts[k]
           p == <<f, 3, k>>
       IN StmtChecked(f, k) /\ s.k \in {"AssignStmt", "ReadStmt"}
          /\ Len(s.c[1].c) = 1 /\ UndeclaredIn(f, s.c[1].c[1].s)
            => /\ Emitted("UndeclaredIdent", p \o <<1, 1>>)
               /\ TypeAt(p \o <<1, 1>>) = createErrorTy
               /\ getIsLValueDecor(Decorations, p \o <<1, 1>>)
               /\ \A kind \in {"IncompatibleAssignment", "NonReferenceableLeftExpr",
                               "ReadWriteRequireBasic", "NonReferenceableExpression"} :
                    ~Emitted(kind, p) /\ ~Emitted(kind, p \o <<1>>)

\* x := y + 1 has been checked and left its two errors
UndeclaredWitness ==
  /\ tree = UndeclaredProgram /\ pc.pass = "done"
  /\ Len(Errors.list) = 2

(***************************************************************************)
(* C7.  Stated: in both builds a return statement in a function whose type *)
(* is not ErrorTy emits IncompatibleReturn exactly when the returned       *)
(* expression's type (Void without expression) is not copyable to the      *)
(* declared return type.                                                   *)
(***************************************************************************)
ReturnCopyableToDeclared ==
  \A f \in DOMAIN tree : \A k \in DOMAIN tree[f].stmts :
    LET s == tree[f].stmts[k]
        p == <<f, 3, k>>
        exprType == IF Len(s.c) > 0 THEN TypeAt(p \o <<1>>) ELSE createVoidTy
    IN (/\ StmtChecked(f, k) /\ s.k = "ReturnStmt"
        /\ hasType(Decorations, <<f>>) /\ ~isErrorTy(TypeAt(<<f>>))
        /\ (\A q \in traversal.rdT : hasType(Decorations, q)))
         => (Emitted("IncompatibleReturn", p)
               <=> ~copyableTypes(BasicTy(tree[f].ret), exprType))

(***************************************************************************)
(* C8.  Stated: every compilation prints the errors exactly once, in the   *)
(* type check's visitProgram, after every emission of the symbols pass and *)
(* of the type check, the check for main being the last; nothing is        *)
(* emitted after the print.                                                *)
(***************************************************************************)
ErrorsPrintedOnce ==
  /\ Len(Errors.printed) <= 1
  /\ pc.pass \in {"symbols", "typecheck"} => Errors.printed = <<>>
  /\ pc.pass \in {"done", "crashed"} => Len(Errors.printed) = 1
  /\ Errors.printed # <<>> => Errors.printed[1] = Errors.list
  /\ \A i \in DOMAIN Errors.list :
       Errors.list[i].kind = "NoMainProperlyDeclared" => i = Len(Errors.list)

(***************************************************************************)
(* Generated code: the subroutines finished so far and the one in work.    *)
(***************************************************************************)
Subroutines ==
  Range(my_code) \cup (IF pc.pass = "codegen" /\ pc.fn > 0 /\ pc.at # "enter"
                       THEN {subr} ELSE {})

\* those the examen code generator produced
ExamenSubroutines == IF variant = "examen" THEN Subroutines ELSE {}

\* the name an instruction defines ("" when it defines none)
NonDefiningOps ==
  {"XLOAD", "PUSH", "CALL", "RETURN", "LABEL", "UJUMP", "FJUMP",
   "WRITEI", "WRITEF", "WRITEC", "WRITES", "WRITELN", "HALT", "NOOP"}
Defines(ins) == IF ins.op \in NonDefiningOps THEN "" ELSE ins.a

\* the temporaries a subroutine defines: the defined names it does not declare
DeclaredNames(sub) ==
  {sub.params[i].name : i \in DOMAIN sub.params}
  \cup {sub.vars[i].name : i \in DOMAIN sub.vars}
IsTemporary(sub, a) == a # "" /\ a \notin DeclaredNames(sub)

\* pairs of distinct instructions of a subroutine defining the same temporary
Redefinitions(sub) ==
  {ij \in (DOMAIN sub.code) \X (DOMAIN sub.code) :
     /\ ij[1] < ij[2]
     /\ IsTemporary(sub, Defines(sub.code[ij[1]]))
     /\ Defines(sub.code[ij[1]]) = Defines(sub.code[ij[2]])}

NodeAt(p) == (CHOOSE n \in StmtNodes : n.at = p).node

\* the nodes whose visitor writes one of its own temporaries more than once
RECURSIVE Unparenthesised(_)
Unparenthesised(e) == IF e.k = "Parenthesis" THEN Unparenthesised(e.c[1]) ELSE e
ReusesOwnTemporary(e) ==
  \/ e.k = "AssignStmt" /\ Len(e.c[1].c) = 1
       /\ Unparenthesised(e.c[2]).k \in {"ExprIdent", "ExprFunc"}
  \/ e.k = "Relational" /\ e.s = "!="
  \/ e.k = "Factorial"
  \/ e.k = "IfStmt" /\ Unparenthesised(e.c[1]).k = "ArrayAccess"

(***************************************************************************)
(* C9.  Stated: within a subroutine no two distinct instructions define    *)
(* the same temporary.                                                     *)
(***************************************************************************)
TemporaryDefinedOnce == \A sub \in ExamenSubroutines : Redefinitions(sub) = {}

\* C9 amended: two instructions of a subroutine that define the same
\* temporary were emitted by one visit of one node, which is a whole-array
\* assignment, a != comparison, a factorial or an if whose condition is an
\* array element; visits of different nodes never define the same temporary
TemporaryRedefinedByOwnerOnly ==
  \A sub \in ExamenSubroutines : \A ij \in Redefinitions(sub) :
    /\ sub.code[ij[1]].own = sub.code[ij[2]].own
    /\ ReusesOwnTemporary(NodeAt(sub.code[ij[1]].own))

\* a finished subroutine in which an array copy wrote its temporaries twice
TemporaryWitness ==
  \E sub \in ExamenSubroutines \cap Range(my_code) : \E ij \in Redefinitions(sub) :
    NodeAt(sub.code[ij[1]].own).k = "AssignStmt"

LabelsOf(sub) == {sub.code[i].a : i \in {j \in DOMAIN sub.code : sub.code[j].op = "LABEL"}}

(***************************************************************************)
(* C10.  In every subroutine each label is the operand of at most one      *)
(* LABEL instruction, and every UJUMP and FJUMP targets a label that a     *)
(* LABEL instruction of the same subroutine defines.                       *)
(***************************************************************************)
LabelsBalanced ==
  \A sub \in ExamenSubroutines :
    /\ \A i, j \in DOMAIN sub.code :
         sub.code[i].op = "LABEL" /\ sub.code[j].op = "LABEL"
         /\ sub.code[i].a = sub.code[j].a => i = j
    /\ \A i \in DOMAIN sub.code :
         /\ sub.code[i].op = "UJUMP" => sub.code[i].a \in LabelsOf(sub)
         /\ sub.code[i].op = "FJUMP" => sub.code[i].b \in LabelsOf(sub)

\* a finished subroutine with nested ifs, whiles and a factorial
LabelsWitness ==
  \E sub \in ExamenSubroutines \cap Range(my_code) :
    /\ Cardinality(LabelsOf(sub)) >= 8
    /\ {"endif2", "endwhile2"} \subseteq LabelsOf(sub)
    /\ \E i \in DOMAIN sub.code : NodeAt(sub.code[i].own).k = "Factorial"
                                  /\ sub.code[i].op = "LABEL"

\* the instructions without the node that emitted them
PlainCode(code) ==
  [i \in DOMAIN code |->
     [op |-> code[i].op, a |-> code[i].a, b |-> code[i].b, c |-> code[i].c]]
\* functions f1 and f2 have the same text but for their names
SameText(f1, f2) == [tree[f1] EXCEPT !.name = ""] = [tree[f2] EXCEPT !.name = ""]

SubroutineShape ==
  variant = "examen" =>
    \A f \in DOMAIN my_code :
      LET sub == my_code[f]
          fn == tree[f]
          off == IF fn.ret # "" THEN 1 ELSE 0
      IN /\ sub.name = fn.name
         /\ Len(sub.params) = off + Len(fn.params)
         /\ fn.ret # "" <=> (sub.params # <<>> /\ sub.params[1].name = "_result")
         /\ \A j \in DOMAIN fn.params :
              /\ sub.params[off + j].name = fn.params[j].name
              /\ sub.params[off + j].isArray <=> fn.params[j].type.arr
         /\ sub.code # <<>> /\ sub.code[Len(sub.code)].op = "RETURN"

\* a program lowered whose functions are an int function ending with a
\* return, one without statements and one with array and scalar formals
SubroutineShapeWitness ==
  /\ variant = "examen" /\ pc.pass = "done" /\ Len(my_code) = 3
  /\ my_code[1].params[1].name = "_result"
  /\ tree[1].stmts[Len(tree[1].stmts)].k = "ReturnStmt"
  /\ tree[2].stmts = <<>> /\ Len(my_code[2].code) = 1
  /\ \E i, j \in DOMAIN my_code[3].params :
       my_code[3].params[i].isArray /\ ~my_code[3].params[j].isArray

\* statement k of function f has been lowered, and the subroutine of f
StmtLowered(f, k) ==
  \/ pc.pass = "done" /\ pc.i = 1
  \/ /\ pc.pass = "codegen"
     /\ \/ pc.fn = 0 /\ pc.at = "exit"
        \/ pc.fn > f
        \/ pc.fn = f /\ (pc.at = "exit" \/ (pc.at = "stmts" /\ pc.i > k))
  \/ pc.pass = "aborted" /\ (pc.fn > f \/ (pc.fn = f /\ pc.i > k))
SubroutineOf(f) == IF f <= Len(my_code) THEN my_code[f] ELSE subr

\* the calls the examen code generator has lowered
LoweredCalls ==
  {n \in StmtNodes : /\ variant = "examen" /\ n.node.k = "Function_call"
                     /\ StmtLowered(n.at[1], n.at[3])}

IsPrefix(p, q) == Len(p) <= Len(q) /\ SubSeq(q, 1, Len(p)) = p
IsConversion(ins) == ins.op \in {"FLOAT", "ALOAD"}
\* the instructions of the call at p itself, without the conversions of its
\* arguments, and the places in code of all it emitted for arguments
CallSequence(code, p) ==
  SelectSeq(code, LAMBDA ins : ins.own = p /\ ~IsConversion(ins))
ArgumentCodeAt(code, p) ==
  {i \in DOMAIN code : \/ code[i].own # p /\ IsPrefix(p, code[i].own)
                       \/ code[i].own = p /\ IsConversion(code[i])}
ArgumentPushAt(code, p) ==
  {i \in DOMAIN code : code[i].own = p /\ code[i].op = "PUSH" /\ code[i].a # ""}
CalleeIsVoid(name) == \E f \in DOMAIN tree : tree[f].name = name /\ tree[f].ret = ""

\* a names the value of argument node e at q: the identifier (or indexed
\* array) itself, a temporary its code defines, or a conversion of those
NamesArgument(code, p, e, q, a) ==
  LET direct(b) ==
        \/ Unparenthesised(e).k \in {"ExprIdent", "ArrayAccess"}
           /\ b = Unparenthesised(e).c[1].s
        \/ \E i \in DOMAIN code : IsPrefix(q, code[i].own) /\ Defines(code[i]) = b
  IN \/ direct(a)
     \/ \E i \in DOMAIN code : /\ code[i].own = p /\ IsConversion(code[i])
                               /\ code[i].a = a /\ direct(code[i].b)

(***************************************************************************)
(* C13.  The instructions of a call lowered by the examen visitFunction_call*)
(* with n arguments are, in order: PUSH without operand exactly when the   *)
(* callee is not void, n PUSHes of the arguments in their order, one CALL  *)
(* of the callee, n POPs without operand, and `POP temp` exactly when the  *)
(* callee is not void; all code of the arguments precedes the first        *)
(* argument PUSH and follows the result-slot PUSH; an assignment or write  *)
(* of the call reads that temp.                                            *)
(***************************************************************************)
CallSequenceShape ==
  \A c \in LoweredCalls :
    LET p == c.at
        e == c.node
        n == Len(e.c) - 1
        code == SubroutineOf(p[1]).code
        seq == CallSequence(code, p)
        slot == IF CalleeIsVoid(e.c[1].s) THEN 0 ELSE 1
        last == CHOOSE i \in DOMAIN code :
                  code[i].own = p /\ \A j \in DOMAIN code : code[j].own = p => j <= i
        user == NodeAt(SubSeq(p, 1, 3))
    IN /\ Len(seq) = slot + n + 1 + n + slot
       /\ slot = 1 => seq[1].op = "PUSH" /\ seq[1].a = ""
       /\ \A i \in 1..n :
            /\ seq[slot + i].op = "PUSH"
            /\ NamesArgument(code, p, e.c[i + 1], p \o <<i + 1>>, seq[slot + i].a)
            /\ seq[slot + n + 1 + i].op = "POP" /\ seq[slot + n + 1 + i].a = ""
       /\ seq[slot + n + 1].op = "CALL" /\ seq[slot + n + 1].a = e.c[1].s
       /\ slot = 1 => /\ seq[Len(seq)].op = "POP" /\ IsTemporary(SubroutineOf(p[1]), seq[Len(seq)].a)
                      /\ user.k \in {"AssignStmt", "WriteExpr"} /\ Len(p) = 5
                           => seq[Len(seq)].a \in {code[last + 1].a, code[last + 1].b}
       /\ \A i \in ArgumentCodeAt(code, p) :
            /\ \A j \in ArgumentPushAt(code, p) : i < j
            /\ \A j \in DOMAIN code : code[j].own = p /\ code[j] = seq[1] /\ slot = 1 => j < i
       /\ Cardinality({i \in DOMAIN code : code[i].own = p /\ code[i].op = "PUSH"})
            = Cardinality({i \in DOMAIN code : code[i].own = p /\ code[i].op = "POP"})

\* lowered: an assignment of a call of an int function with two arguments,
\* one of them converted, and a call of a void function
CallSequenceWitness ==
  /\ pc.pass = "done"
  /\ \E c \in LoweredCalls :
       /\ ~CalleeIsVoid(c.node.c[1].s) /\ Len(c.node.c) = 3
       /\ NodeAt(SubSeq(c.at, 1, 3)).k = "AssignStmt"
       /\ \E i \in DOMAIN my_code[3].code :
            my_code[3].code[i].own = c.at /\ my_code[3].code[i].op = "FLOAT"
  /\ \E c \in LoweredCalls : CalleeIsVoid(c.node.c[1].s)

\* the procedure-call statements either code generator has lowered
LoweredProcCalls ==
  {n \in StmtNodes : n.node.k = "ProcCall" /\ StmtLowered(n.at[1], n.at[3])}

(***************************************************************************)
(* C14.  In both variants the code of every lowered procedure-call         *)
(* statement is the code of its function_call, and it holds a CALL of the  *)
(* callee.                                                                 *)
(***************************************************************************)
ProcCallEmitsCall ==
  \A n \in LoweredProcCalls :
    LET code == SubroutineOf(n.at[1]).code
        callee == n.node.c[1].c[1].s
    IN /\ \A i \in DOMAIN code :
            IsPrefix(n.at, code[i].own) => IsPrefix(n.at \o <<1>>, code[i].own)
       /\ \E i \in DOMAIN code :
            /\ code[i].op = "CALL" /\ code[i].a = callee
            /\ code[i].own = n.at \o <<1>>

\* the lowered examen assignments of an Integer value to a Float variable
LoweredWidenings ==
  {n \in StmtNodes :
     /\ variant = "examen" /\ n.node.k = "AssignStmt" /\ StmtLowered(n.at[1], n.at[3])
     /\ Len(n.node.c[1].c) = 1 /\ Unparenthesised(n.node.c[2]).k # "ArrayAccess"
     /\ isFloatTy(TypeAt(n.at \o <<1>>)) /\ isIntegerTy(TypeAt(n.at \o <<2>>))}

(***************************************************************************)
(* C15.  An assignment of an Integer value to a Float scalar variable x    *)
(* emits, after the code of the right-hand side, `FLOAT t, addr2` and the  *)
(* float move `FLOAD x, t`.                                                *)
(***************************************************************************)
WideningStoresWithFloatMove ==
  \A n \in LoweredWidenings :
    LET own == SelectSeq(SubroutineOf(n.at[1]).code, LAMBDA ins : ins.own = n.at)
    IN /\ Len(own) = 2
       /\ own[1].op = "FLOAT" /\ IsTemporary(SubroutineOf(n.at[1]), own[1].a)
       /\ own[2].op = "FLOAD" /\ own[2].a = n.node.c[1].c[1].s /\ own[2].b = own[1].a

\* the array a LOADX or XLOAD at place i of sub indexes ("" for others)
BaseOperand(ins) ==
  CASE ins.op = "LOADX" -> ins.b [] ins.op = "XLOAD" -> ins.a [] OTHER -> ""
ParameterNames(sub) == {sub.params[j].name : j \in DOMAIN sub.params}
LocalNames(sub) == {sub.vars[j].name : j \in DOMAIN sub.vars}
\* temporary t holds the address of a parameter before place i
LoadedFromParameter(sub, t, i) ==
  \E j \in 1..(i - 1) : /\ sub.code[j].op = "LOAD" /\ sub.code[j].a = t
                        /\ sub.code[j].b \in ParameterNames(sub)

(***************************************************************************)
(* C16.  In the code of the examen generator the base of a LOADX or XLOAD  *)
(* is never a parameter: it is a local array by its name, or a temporary   *)
(* that an earlier `LOAD temp, param` set.                                 *)
(***************************************************************************)
ParameterNeverIndexedDirectly ==
  \A sub \in ExamenSubroutines : \A i \in DOMAIN sub.code :
    LET base == BaseOperand(sub.code[i])
    IN base # "" =>
         /\ base \notin ParameterNames(sub)
         /\ \/ base \in LocalNames(sub)
            \/ IsTemporary(sub, base) /\ LoadedFromParameter(sub, base, i)

\* the calls the examen type checker has checked
CheckedCalls ==
  {n \in StmtNodes : /\ variant = "examen" /\ n.node.k = "Function_call"
                     /\ NodeChecked(n.at)}

(***************************************************************************)
(* C17.  For a call with k arguments checked by the examen type checker:   *)
(* IsNotCallable is emitted exactly when the callee is neither a function  *)
(* nor ErrorTy, and then nothing else; for a function of arity n,          *)
(* NumberOfParameters exactly when k # n and then no IncompatibleParameter;*)
(* when k = n, IncompatibleParameter exactly at the arguments whose type   *)
(* is not ErrorTy and not copyable to the formal; the node has the         *)
(* callee's return type; and every argument is visited exactly once        *)
(* whatever the callee's type.                                             *)
(***************************************************************************)
CallChecks ==
  \A c \in CheckedCalls :
    LET p == c.at
        args == 2..Len(c.node.c)
        k == Len(c.node.c) - 1
        tFunc == TypeAt(p \o <<1>>)
        n == getNumOfParameters(tFunc)
        function == isFunctionTy(tFunc)
    IN /\ Emitted("IsNotCallable", p \o <<1>>) <=> (~function /\ ~isErrorTy(tFunc))
       /\ Emitted("NumberOfParameters", p \o <<1>>) <=> (function /\ k # n)
       /\ \A i \in args :
            /\ Emitted("IncompatibleParameter", p \o <<i>>)
                 <=> /\ function /\ k = n
                     /\ ~isErrorTy(TypeAt(p \o <<i>>))
                     /\ ~copyableTypes(getParameterType(tFunc, i - 1), TypeAt(p \o <<i>>))
            /\ p \o <<i>> \in traversal.vis \ traversal.again
       /\ function => hasType(Decorations, p) /\ TypeAt(p) = getFuncReturnType(tFunc)

\* checked: a call of a function with the right number of arguments, the
\* first not copyable to its formal and the second copyable
CallChecksWitness ==
  /\ pc.pass = "done"
  /\ \E c \in CheckedCalls :
       /\ Len(c.node.c) = 3 /\ isFunctionTy(TypeAt(c.at \o <<1>>))
       /\ Emitted("IncompatibleParameter", c.at \o <<2>>)
       /\ ~Emitted("IncompatibleParameter", c.at \o <<3>>)

\* the arithmetic nodes the examen type checker has checked
CheckedArithmetic ==
  {n \in StmtNodes : /\ variant = "examen" /\ n.node.k = "Arithmetic"
                     /\ NodeChecked(n.at)}
\* some operand of the node at p is neither ErrorTy nor accepted by e's operator
RejectsOperand(e, p) ==
  \E o \in {p \o <<1>>, p \o <<2>>} : ~isErrorTy(TypeAt(o)) /\ ~Accepts(e, TypeAt(o))

(***************************************************************************)
(* C18.  As stated: an arithmetic node checked by the examen type checker  *)
(* has IncompatibleOperator when an operand is not of a type its operator  *)
(* accepts, is decorated Float if an operand is Float and Integer          *)
(* otherwise, for every operator, and is no l-value.                       *)
(***************************************************************************)
ArithmeticCoercesEveryOperator ==
  \A n \in CheckedArithmetic :
    /\ RejectsOperand(n.node, n.at) => Emitted("IncompatibleOperator", n.at)
    /\ TypeAt(n.at) = getTypeCoercion(TypeAt(n.at \o <<1>>), TypeAt(n.at \o <<2>>))
    /\ ~getIsLValueDecor(Decorations, n.at)

\* C18 amended: IncompatibleOperator is emitted exactly when an operand is
\* neither ErrorTy nor accepted (Integer for `%`, numeric for the others);
\* a `%` node is decorated Integer whatever its operands, a node of another
\* operator Float if an operand is Float and Integer otherwise; no l-value
ArithmeticTyped ==
  \A n \in CheckedArithmetic :
    /\ Emitted("IncompatibleOperator", n.at) <=> RejectsOperand(n.node, n.at)
    /\ hasType(Decorations, n.at) /\ hasIsLValue(Decorations, n.at)
    /\ TypeAt(n.at) = IF n.node.s = "%" THEN createIntegerTy
                      ELSE getTypeCoercion(TypeAt(n.at \o <<1>>), TypeAt(n.at \o <<2>>))
    /\ ~getIsLValueDecor(Decorations, n.at)

\* checked: a `%` with a Float operand, in error and decorated Integer
ArithmeticTypedWitness ==
  \E n \in CheckedArithmetic :
    /\ n.node.s = "%" /\ isFloatTy(TypeAt(n.at \o <<1>>))
    /\ Emitted("IncompatibleOperator", n.at) /\ isIntegerTy(TypeAt(n.at))

\* the unary nodes either type checker has checked
CheckedUnary == {n \in StmtNodes : n.node.k = "Unary" /\ NodeChecked(n.at)}

(***************************************************************************)
(* C19.  In both type checkers a `not` node is decorated Boolean whatever  *)
(* its operand, a unary `-` node with the numeric type of its operand      *)
(* (Integer or Float), each with IncompatibleOperator exactly when the     *)
(* operand is neither of the accepted type nor ErrorTy; so an if or while  *)
(* whose condition is such a `not` gets no BooleanRequired.                 *)
(***************************************************************************)
UnaryTyped ==
  \A n \in CheckedUnary :
    LET p == n.at
        t1 == TypeAt(p \o <<1>>)
        user == NodeAt(SubSeq(p, 1, Len(p) - 1))
    IN /\ n.node.s = "not" =>
            /\ isBooleanTy(TypeAt(p))
            /\ Emitted("IncompatibleOperator", p) <=> (~isErrorTy(t1) /\ ~isBooleanTy(t1))
            /\ user.k \in {"IfStmt", "WhileStmt"} /\ p[Len(p)] = 1
                 => ~Emitted("BooleanRequired", SubSeq(p, 1, Len(p) - 1))
       /\ n.node.s = "-" =>
            /\ isNumericTy(TypeAt(p))
            /\ isNumericTy(t1) => TypeAt(p) = t1
            /\ Emitted("IncompatibleOperator", p) <=> (~isErrorTy(t1) /\ ~isNumericTy(t1))

\* the array accesses, in expression or left-expression position, that the
\* examen type checker has checked
CheckedAccesses ==
  {n \in StmtNodes : /\ variant = "examen" /\ NodeChecked(n.at)
                     /\ n.node.k \in {"ArrayAccess", "Left_expr"} /\ Len(n.node.c) > 1}
\* the checks of the node enclosing the node at p that inspect that node
EnclosingChecks(p) ==
  LET q == SubSeq(p, 1, Len(p) - 1)
  IN {chk \in Checks([at |-> q, node |-> NodeAt(q)]) : p \in chk.ops}

(***************************************************************************)
(* C20.  For an access a[e] checked by the examen type checker: when a is  *)
(* an array the node has the element type and is an l-value, without       *)
(* error; when a is neither an array nor ErrorTy there is one              *)
(* NonArrayInArrayAccess, the node is ErrorTy, and an error of the         *)
(* enclosing assignment, read, write or operator is due to another operand;*)
(* NonIntegerIndexInArrayAccess is emitted exactly when the index is       *)
(* neither Integer nor ErrorTy.                                            *)
(***************************************************************************)
AccessChecks ==
  \A n \in CheckedAccesses :
    LET p == n.at
        t1 == TypeAt(p \o <<1>>)
        t2 == TypeAt(p \o <<2>>)
    IN /\ hasType(Decorations, p) /\ hasIsLValue(Decorations, p)
       /\ p \notin traversal.again
       /\ isArrayTy(t1) => /\ TypeAt(p) = getArrayElemType(t1)
                           /\ getIsLValueDecor(Decorations, p)
       /\ Emitted("NonArrayInArrayAccess", p) <=> (~isArrayTy(t1) /\ ~isErrorTy(t1))
       /\ ~isArrayTy(t1) =>
            /\ isErrorTy(TypeAt(p))
            /\ \A chk \in EnclosingChecks(p) :
                 Emitted(chk.kind, chk.at) =>
                   \E o \in chk.ops \ {p} :
                     ~isErrorTy(TypeAt(o)) /\ ~Accepts(chk.node, TypeAt(o))
       /\ Emitted("NonIntegerIndexInArrayAccess", p \o <<2>>)
            <=> (~isErrorTy(t2) /\ ~isIntegerTy(t2))

\* checked: an assignment to an element of a variable that is no array,
\* indexed by a boolean, with the two errors of the access and no other
AccessChecksWitness ==
  /\ pc.pass = "done"
  /\ \E n \in CheckedAccesses :
       /\ n.node.k = "Left_expr" /\ isIntegerTy(TypeAt(n.at \o <<1>>))
       /\ Emitted("NonArrayInArrayAccess", n.at)
       /\ Emitted("NonIntegerIndexInArrayAccess", n.at \o <<2>>)
       /\ Len(Errors.list) = 2

(***************************************************************************)
(* Shapes of lowered statements: the places in a subroutine's code of what *)
(* the visit of a node and of the nodes below it emitted.                  *)
(***************************************************************************)
Places(code, p) == {i \in DOMAIN code : IsPrefix(p, code[i].own)}
IsInterval(S) == \A i, j \in S : \A k \in i..j : k \in S
\* the k-th smallest place of S
Nth(S, k) == CHOOSE i \in S : Cardinality({j \in S : j < i}) = k - 1
\* the jumps and labels the visit of the node at p itself emitted
JumpsAt(code, p) ==
  {i \in DOMAIN code : code[i].own = p /\ code[i].op \in {"FJUMP", "UJUMP", "LABEL"}}
\* what the visit of the node at p itself emitted to fetch an indexed condition
FetchesAt(code, p) ==
  {i \in DOMAIN code : code[i].own = p /\ code[i].op \in {"LOAD", "LOADX"}}
\* a names the value of the condition e at q
NamesCondition(code, p, e, q, a) ==
  \/ Unparenthesised(e).k = "ExprIdent" /\ a = Unparenthesised(e).c[1].s
  \/ \E i \in Places(code, q) \cup FetchesAt(code, p) : Defines(code[i]) = a
\* a statement whose visit emits no instruction: the practica return
\* without expression
LowersToNothing(s) == variant = "practica" /\ s.k = "ReturnStmt" /\ Len(s.c) = 0
\* the statements of the body at q are all there, one after the other
BodyInFull(code, body, q) ==
  /\ \A k \in DOMAIN body.c :
       LowersToNothing(body.c[k]) \/ Places(code, q \o <<k>>) # {}
  /\ \A k1, k2 \in DOMAIN body.c :
       k1 < k2 => \A i \in Places(code, q \o <<k1>>) :
                    \A j \in Places(code, q \o <<k2>>) : i < j
LabelNumbers == {ToString(n) : n \in 1..12}

\* the if statements the examen code generator has lowered
LoweredIfs ==
  {n \in StmtNodes : /\ variant = "examen" /\ n.node.k = "IfStmt"
                     /\ StmtLowered(n.at[1], n.at[3])}

(***************************************************************************)
(* C21.  The code of an if statement lowered by the examen generator is,   *)
(* in one piece: the condition code, `FJUMP cond, elseN`, the then-body,   *)
(* `UJUMP endifN`, `LABEL elseN`, the else-body, `LABEL endifN` with one N *)
(* when there is an else branch, and the condition code, `FJUMP cond,      *)
(* endifN`, the then-body, `LABEL endifN` and no else label when there is  *)
(* none; the bodies are there statement by statement.                      *)
(***************************************************************************)
IfShape ==
  \A n \in LoweredIfs :
    LET p == n.at
        e == n.node
        code == SubroutineOf(p[1]).code
        J == JumpsAt(code, p)
        cond == Places(code, p \o <<1>>) \cup FetchesAt(code, p)
        thenC == Places(code, p \o <<2>>)
        elseC == Places(code, p \o <<3>>)
        j(k) == code[Nth(J, k)]
    IN /\ IsInterval(Places(code, p))
       /\ Places(code, p) = cond \cup thenC \cup elseC \cup J
       /\ BodyInFull(code, e.c[2], p \o <<2>>)
       /\ Cardinality(J) = IF Len(e.c) > 2 THEN 4 ELSE 2
       /\ j(1).op = "FJUMP" /\ NamesCondition(code, p, e.c[1], p \o <<1>>, j(1).a)
       /\ \A i \in cond : i < Nth(J, 1)
       /\ \A i \in thenC : Nth(J, 1) < i /\ i < Nth(J, 2)
       /\ IF Len(e.c) > 2
          THEN /\ \E N \in LabelNumbers :
                    /\ j(1).b = "else" \o N
                    /\ j(2).op = "UJUMP" /\ j(2).a = "endif" \o N
                    /\ j(3).op = "LABEL" /\ j(3).a = "else" \o N
                    /\ j(4).op = "LABEL" /\ j(4).a = "endif" \o N
               /\ Nth(J, 3) = Nth(J, 2) + 1
               /\ \A i \in elseC : Nth(J, 3) < i /\ i < Nth(J, 4)
               /\ \A i \in Places(code, p) : i <= Nth(J, 4)
               /\ BodyInFull(code, e.c[3], p \o <<3>>)
          ELSE /\ \E N \in LabelNumbers :
                    /\ j(1).b = "endif" \o N
                    /\ j(2).op = "LABEL" /\ j(2).a = "endif" \o N
               /\ \A i \in Places(code, p) : i <= Nth(J, 2)
               /\ elseC = {}

\* lowered: an if with an else branch whose condition is an array element
\* and whose bodies have two statements each
IfShapeWitness ==
  /\ pc.pass = "done"
  /\ \E n \in LoweredIfs :
       /\ Len(n.node.c) > 2 /\ n.node.c[1].k = "ArrayAccess"
       /\ Len(n.node.c[2].c) = 2 /\ Len(n.node.c[3].c) = 2
       /\ Cardinality(Places(my_code[3].code, n.at)) >= 9
       /\ Cardinality(JumpsAt(my_code[3].code, n.at)) = 4

\* the node at p lies in the else branch of an if, which the practica
\* visitIfStmt does not visit
InElseBranch(p) ==
  \E l \in 3..(Len(p) - 1) : NodeAt(SubSeq(p, 1, l)).k = "IfStmt" /\ p[l + 1] = 3
\* the while statements of the statements either code generator has lowered
LoweredWhiles ==
  {n \in StmtNodes : n.node.k = "WhileStmt" /\ StmtLowered(n.at[1], n.at[3])}
\* the label a jump instruction targets ("" for other instructions)
Target(ins) ==
  CASE ins.op = "UJUMP" -> ins.a [] ins.op = "FJUMP" -> ins.b [] OTHER -> ""
\* a is the address the visit of the condition e at q returns: the variable
\* (for an element, the indexed array) or what the condition code defines
ConditionAddress(code, e, q, a) ==
  \/ Unparenthesised(e).k \in {"ExprIdent", "ArrayAccess"} /\ a = Unparenthesised(e).c[1].s
  \/ \E i \in Places(code, q) : Defines(code[i]) = a

(***************************************************************************)
(* C22.  In both variants the code of every while statement of a lowered   *)
(* statement is, in one piece: `LABEL whileN`, the condition code,         *)
(* `FJUMP cond, endwhileN`, the body, `UJUMP whileN`, `LABEL endwhileN`    *)
(* with one N; the condition code lies between the while label and the     *)
(* FJUMP; and the FJUMP is the only exit: every other jump of the piece    *)
(* stays within the piece and does not target endwhileN, and the piece has *)
(* no RETURN and no HALT.                                                  *)
(***************************************************************************)
WhileShape ==
  \A n \in LoweredWhiles :
    LET p == n.at
        e == n.node
        code == SubroutineOf(p[1]).code
        J == JumpsAt(code, p)
        P == Places(code, p)
        cond == Places(code, p \o <<1>>)
        body == Places(code, p \o <<2>>)
        j(k) == code[Nth(J, k)]
    IN /\ IsInterval(P) /\ P = cond \cup body \cup J
       /\ Cardinality(J) = 4
       /\ \E N \in LabelNumbers :
            /\ j(1).op = "LABEL" /\ j(1).a = "while" \o N
            /\ j(2).op = "FJUMP" /\ j(2).b = "endwhile" \o N
            /\ j(3).op = "UJUMP" /\ j(3).a = "while" \o N
            /\ j(4).op = "LABEL" /\ j(4).a = "endwhile" \o N
       /\ ConditionAddress(code, e.c[1], p \o <<1>>, j(2).a)
       /\ \A i \in P : Nth(J, 1) <= i /\ i <= Nth(J, 4)
       /\ \A i \in cond : Nth(J, 1) < i /\ i < Nth(J, 2)
       /\ \A i \in body : Nth(J, 2) < i /\ i < Nth(J, 3)
       /\ Nth(J, 4) = Nth(J, 3) + 1
       /\ BodyInFull(code, e.c[2], p \o <<2>>)
       /\ \A i \in (cond \cup body) :
            /\ Target(code[i]) # "" =>
                 \E k \in (cond \cup body) :
                   code[k].op = "LABEL" /\ code[k].a = Target(code[i])
            /\ code[i].op \notin {"RETURN", "HALT"}

\* the relational nodes the examen code generator has lowered
LoweredRelationals ==
  {n \in StmtNodes : /\ variant = "examen" /\ n.node.k = "Relational"
                     /\ StmtLowered(n.at[1], n.at[3])}
\* a is the address of the value of operand e at q of the node at p: the
\* variable, the temporary the node loaded the element into, or a temporary
\* the operand's code defines
OperandAddress(code, p, e, q, a) ==
  CASE Unparenthesised(e).k = "ExprIdent" -> a = Unparenthesised(e).c[1].s
    [] Unparenthesised(e).k = "ArrayAccess" ->
         \E i \in DOMAIN code :
           /\ code[i].own = p /\ code[i].op = "LOADX" /\ code[i].a = a
           /\ \E j \in Places(code, q) : Defines(code[j]) = code[i].c
    [] OTHER -> \E i \in Places(code, q) : Defines(code[i]) = a
\* the comparison each operator stands for: opcode, operands swapped, negated
Comparison(op) ==
  CASE op = "==" -> <<"EQ", FALSE, FALSE>> [] op = "!=" -> <<"EQ", FALSE, TRUE>>
    [] op = "<" -> <<"LT", FALSE, FALSE>> [] op = "<=" -> <<"LE", FALSE, FALSE>>
    [] op = ">" -> <<"LT", TRUE, FALSE>> [] op = ">=" -> <<"LE", TRUE, FALSE>>
\* a is what the comparison at p uses for operand e at q: with float, the
\* operand's address when it is Float and else a fresh temporary that a FLOAT
\* of the node set from the operand's address
ComparedAddress(sub, p, e, q, float, a) ==
  IF float /\ ~isFloatTy(TypeAt(q))
  THEN \E i \in DOMAIN sub.code :
         /\ sub.code[i].own = p /\ sub.code[i].op = "FLOAT" /\ sub.code[i].a = a
         /\ OperandAddress(sub.code, p, e, q, sub.code[i].b)
         /\ IsTemporary(sub, a) /\ a # sub.code[i].b
         /\ \A j \in 1..(i - 1) : Defines(sub.code[j]) # a
  ELSE OperandAddress(sub.code, p, e, q, a)

(***************************************************************************)
(* C23.  A relational node lowered by the examen generator emits, after    *)
(* the code and element loads of its operands: EQ, LT or LE on the         *)
(* operands' addresses when neither operand is Float; otherwise one FLOAT  *)
(* into a fresh temporary for each operand that is not Float and FEQ, FLT  *)
(* or FLE on the converted addresses.  `!=` is (F)EQ followed by NOT of    *)
(* its result, `>` is (F)LT and `>=` is (F)LE with the operands swapped,   *)
(* `<` and `<=` keep the order.                                            *)
(***************************************************************************)
RelationalLowering ==
  \A n \in LoweredRelationals :
    LET p == n.at
        e == n.node
        sub == SubroutineOf(p[1])
        own == SelectSeq(sub.code, LAMBDA ins : ins.own = p /\ ins.op \notin {"LOAD", "LOADX"})
        float == isFloatTy(TypeAt(p \o <<1>>)) \/ isFloatTy(TypeAt(p \o <<2>>))
        nconv == IF float
                 THEN Cardinality({i \in 1..2 : ~isFloatTy(TypeAt(p \o <<i>>))}) ELSE 0
        cmp == own[nconv + 1]
        c == Comparison(e.s)
        first == IF c[2] THEN 2 ELSE 1
    IN /\ Len(own) = nconv + 1 + (IF c[3] THEN 1 ELSE 0)
       /\ \A i \in 1..nconv : own[i].op = "FLOAT"
       /\ cmp.op = (IF float THEN "F" ELSE "") \o c[1]
       /\ IsTemporary(sub, cmp.a)
       /\ ComparedAddress(sub, p, e.c[first], p \o <<first>>, float, cmp.b)
       /\ ComparedAddress(sub, p, e.c[3 - first], p \o <<3 - first>>, float, cmp.c)
       /\ c[3] => /\ own[nconv + 2].op = "NOT"
                  /\ own[nconv + 2].a = cmp.a /\ own[nconv + 2].b = cmp.a

\* lowered: v[1] >= y, an element of an array parameter against a Float
RelationalWitness ==
  /\ pc.pass = "done"
  /\ \E n \in LoweredRelationals :
       /\ n.node.s = ">=" /\ n.node.c[1].k = "ArrayAccess"
       /\ isFloatTy(TypeAt(n.at \o <<2>>))
       /\ \E i, j \in DOMAIN my_code[3].code :
            /\ my_code[3].code[i].own = n.at /\ my_code[3].code[i].op = "FLOAT"
            /\ my_code[3].code[j].own = n.at /\ my_code[3].code[j].op = "FLE"
            /\ my_code[3].code[j].c = my_code[3].code[i].a

\* a is the address the visit of the argument e at q returns: the variable
\* (for an element, the indexed array) or a temporary its code defines
ArgumentAddress(code, e, q, a) ==
  IF Unparenthesised(e).k \in {"ExprIdent", "ArrayAccess"}
  THEN a = Unparenthesised(e).c[1].s
  ELSE \E i \in Places(code, q) : Defines(code[i]) = a
\* the places of the conversions of the call at p that define a
ConvertedBy(code, p, a) ==
  {i \in DOMAIN code : code[i].own = p /\ IsConversion(code[i]) /\ code[i].a = a}

(***************************************************************************)
(* C24.  In a call lowered by the examen generator the operand of the PUSH *)
(* of an argument is: the temporary of a `FLOAT temp, addr` when the       *)
(* actual is Integer and the formal Float; the temporary of an `ALOAD      *)
(* temp, a` when the formal is an array and the actual a local variable a; *)
(* the argument's own address otherwise, an array parameter included; in   *)
(* the first two cases the conversion precedes the PUSH.                   *)
(***************************************************************************)
ArgumentPushOperand ==
  \A c \in LoweredCalls :
    LET p == c.at
        e == c.node
        sub == SubroutineOf(p[1])
        code == sub.code
        tFunc == TypeAt(p \o <<1>>)
        slot == IF isVoidFunction(tFunc) THEN 0 ELSE 1
        pushes == {i \in DOMAIN code : code[i].own = p /\ code[i].op = "PUSH"}
    IN \A k \in 1..(Len(e.c) - 1) :
         LET q == p \o <<k + 1>>
             arg == e.c[k + 1]
             at == Nth(pushes, slot + k)
             push == code[at]
             tExpr == TypeAt(q)
             tParam == getParameterType(tFunc, k)
             float == isIntegerTy(tExpr) /\ isFloatTy(tParam)
             local == /\ ~float /\ isArrayTy(tParam)
                      /\ Unparenthesised(arg).k = "ExprIdent"
                      /\ Unparenthesised(arg).c[1].s \in LocalNames(sub)
             by == ConvertedBy(code, p, push.a)
         IN IF float \/ local
            THEN /\ Cardinality(by) = 1
                 /\ \A i \in by :
                      /\ i < at /\ IsTemporary(sub, push.a)
                      /\ code[i].op = (IF float THEN "FLOAT" ELSE "ALOAD")
                      /\ ArgumentAddress(code, arg, q, code[i].b)
            ELSE /\ by = {}
                 /\ ArgumentAddress(code, arg, q, push.a)

\* lowered: f(a) with a local array a and a void f(v: array), giving
\* ALOAD %t,a; PUSH %t; CALL f; POP and nothing else
ArgumentPushWitness ==
  /\ pc.pass = "done" /\ variant = "examen" /\ Len(my_code) = 3
  /\ SelectSeq(my_code[3].code, LAMBDA ins : Len(ins.own) > 0)
       = emittedBy(<<3, 3, 1, 1>>,
                   <<instruction("ALOAD", "%1", "a", ""), instruction("PUSH", "%1", "", ""),
                     instruction("CALL", "f", "", ""), instruction("POP", "", "", "")>>)

\* the whole-array assignments a := b the examen code generator has lowered
LoweredArrayCopies ==
  {n \in StmtNodes :
     /\ variant = "examen" /\ n.node.k = "AssignStmt" /\ StmtLowered(n.at[1], n.at[3])
     /\ Len(n.node.c[1].c) = 1 /\ Unparenthesised(n.node.c[2]).k = "ExprIdent"
     /\ isArrayTy(TypeAt(n.at \o <<1>>)) /\ isArrayTy(TypeAt(n.at \o <<2>>))}

(***************************************************************************)
(* C25.  A whole-array assignment a := b between arrays of size n lowered  *)
(* by the examen generator emits, after one `LOAD temp, name` for each of  *)
(* a and b that is a parameter, exactly the n triples `ILOAD tOffs, i;     *)
(* LOADX tRight, base2, tOffs; XLOAD base1, tOffs, tRight` for i = 0..n-1  *)
(* in ascending order, where a base is the array's name for a local array  *)
(* and the temporary loaded from it for a parameter.                       *)
(***************************************************************************)
ArrayCopyUnrolled ==
  \A c \in LoweredArrayCopies :
    LET p == c.at
        sub == SubroutineOf(p[1])
        own == SelectSeq(sub.code, LAMBDA ins : ins.own = p)
        left == c.node.c[1].c[1].s
        right == Unparenthesised(c.node.c[2]).c[1].s
        n == getArraySize(TypeAt(p \o <<1>>))
        n1 == IF left \in ParameterNames(sub) THEN 1 ELSE 0
        n2 == IF right \in ParameterNames(sub) THEN 1 ELSE 0
        base1 == IF n1 = 1 THEN own[1].a ELSE left
        base2 == IF n2 = 1 THEN own[n1 + 1].a ELSE right
        triple(i) == SubSeq(own, n1 + n2 + 3 * i + 1, n1 + n2 + 3 * i + 3)
    IN /\ Len(own) = n1 + n2 + 3 * n
       /\ Places(sub.code, p) = {i \in DOMAIN sub.code : sub.code[i].own = p}
       /\ n1 = 1 => own[1].op = "LOAD" /\ own[1].b = left /\ IsTemporary(sub, base1)
       /\ n2 = 1 => /\ own[n1 + 1].op = "LOAD" /\ own[n1 + 1].b = right
                    /\ IsTemporary(sub, base2)
       /\ n1 = 1 /\ n2 = 1 => base1 # base2
       /\ \A i \in 0..(n - 1) :
            LET tOffs == triple(i)[1].a
                tRight == triple(i)[2].a
            IN /\ IsTemporary(sub, tOffs) /\ IsTemporary(sub, tRight)
               /\ tOffs # tRight /\ {tOffs, tRight} \cap {base1, base2} = {}
               /\ [j \in 1..3 |-> [triple(i)[j] EXCEPT !.own = <<>>]]
                    = <<instruction("ILOAD", tOffs, ToString(i), ""),
                        instruction("LOADX", tRight, base2, tOffs),
                        instruction("XLOAD", base1, tOffs, tRight)>>

\* lowered: a copy of every element of an array parameter into a local array
ArrayCopyWitness ==
  /\ pc.pass = "done"
  /\ \E c \in LoweredArrayCopies :
       LET sub == my_code[c.at[1]]
           n == getArraySize(TypeAt(c.at \o <<1>>))
       IN /\ n = ArraySize
          /\ Unparenthesised(c.node.c[2]).c[1].s \in ParameterNames(sub)
          /\ c.node.c[1].c[1].s \in LocalNames(sub)
          /\ Cardinality({i \in DOMAIN sub.code : sub.code[i].op = "XLOAD"}) = ArraySize

\* the return statements either code generator has visited
LoweredReturns ==
  {n \in StmtNodes : /\ n.node.k = "ReturnStmt" /\ StmtLowered(n.at[1], n.at[3])
                     /\ ~(variant = "practica" /\ InElseBranch(n.at))}

(***************************************************************************)
(* C26.  In both variants a lowered return statement with an expression    *)
(* emits the expression's code, then `LOAD _result, addr`, then RETURN,    *)
(* and one without expression emits a single RETURN, so that a return      *)
(* statement inside an if or while body has a RETURN at its place.         *)
(***************************************************************************)
ReturnEmitsReturn ==
  \A n \in LoweredReturns :
    LET p == n.at
        code == SubroutineOf(p[1]).code
        own == SelectSeq(code, LAMBDA ins : ins.own = p)
        at == {i \in DOMAIN code : code[i].own = p}
    IN /\ IsInterval(Places(code, p))
       /\ IF Len(n.node.c) > 0
          THEN /\ Len(own) = 2
               /\ own[1].op = "LOAD" /\ own[1].a = "_result"
               /\ ArgumentAddress(code, n.node.c[1], p \o <<1>>, own[1].b)
               /\ own[2].op = "RETURN"
               /\ \A i \in Places(code, p \o <<1>>) : \A j \in at : i < j
          ELSE Len(own) = 1 /\ own[1].op = "RETURN"

(***************************************************************************)
(* C27.  After the symbols pass every Function node has a scope and a type *)
(* decoration and every Parameter node has a type decoration; the symbols  *)
(* pass has read no type decoration that was never written, and the type   *)
(* check's visitFunction finds the function's type written.                *)
(***************************************************************************)
SymbolsDecorationsWritten ==
  /\ pc.pass = "symbols" => unsetTy = NoTy
  /\ AfterSymbols =>
       \A f \in DOMAIN tree :
         /\ <<f>> \in DOMAIN Decorations.scope
         /\ hasType(Decorations, <<f>>)
         /\ \A j \in DOMAIN tree[f].params : hasType(Decorations, <<f, 1, j>>)

\* the name an instruction writes: what it defines, or the array an XLOAD
\* stores into
Writes(ins) == IF ins.op = "XLOAD" THEN ins.a ELSE Defines(ins)
\* the instructions of the examen generator that write a declared variable
\* or parameter of their subroutine
WritesToDeclared ==
  {w \in UNION {{[sub |-> sub, i |-> i] : i \in DOMAIN sub.code} : sub \in ExamenSubroutines} :
     Writes(w.sub.code[w.i]) \in DeclaredNames(w.sub) \ {"_result"}}

(***************************************************************************)
(* C28.  In the code of the examen generator an instruction whose          *)
(* destination is a declared local variable or parameter is emitted by the *)
(* visit of an assignment or a read statement itself: the code of an       *)
(* expression that is only read, and what an if, while, write, operator,   *)
(* call or return adds to fetch its value, writes temporaries only.        *)
(***************************************************************************)
ReadOnlyCodeWritesTemporaries ==
  \A w \in WritesToDeclared :
    NodeAt(w.sub.code[w.i].own).k \in {"AssignStmt", "ReadStmt"}

\* the places where the examen code uses the value of an array element a[i]:
\* the FJUMP of a while whose condition it is, the PUSH (or the FLOAT
\* before it) of a call whose argument it is, the `LOAD _result` of a
\* return of it, and the FLOAT of an assignment of it to a Float variable
ElementUses ==
  UNION {
    LET p == n.at
        e == n.node
        sub == SubroutineOf(p[1])
        code == sub.code
        own(op) == {i \in DOMAIN code : code[i].own = p /\ code[i].op = op}
        isElement(k) == k \in DOMAIN e.c /\ Unparenthesised(e.c[k]).k = "ArrayAccess"
        use(S, kind) == {[kind |-> kind, sub |-> sub, at |-> i] : i \in S}
    IN IF variant # "examen" \/ ~StmtLowered(p[1], p[3]) THEN {}
       ELSE CASE e.k = "WhileStmt" /\ isElement(1) -> use(own("FJUMP"), "while")
              [] e.k = "ReturnStmt" /\ isElement(1) -> use(own("LOAD"), "return")
              [] e.k = "AssignStmt" /\ isElement(2) /\ isFloatTy(TypeAt(p \o <<1>>))
                   /\ isIntegerTy(TypeAt(p \o <<2>>)) -> use(own("FLOAT"), "assign")
              [] e.k = "Function_call" ->
                   LET slot == IF isVoidFunction(TypeAt(p \o <<1>>)) THEN 0 ELSE 1
                       push(k) == Nth(own("PUSH"), slot + k - 1)
                       by(k) == ConvertedBy(code, p, code[push(k)].a)
                   IN UNION {use(IF by(k) = {} THEN {push(k)} ELSE by(k), "call") :
                               k \in {j \in 2..Len(e.c) : isElement(j)}}
              [] OTHER -> {}
    : n \in StmtNodes}
\* the operand an instruction reads its value from
Source(ins) == IF ins.op \in {"FJUMP", "PUSH"} THEN ins.a ELSE ins.b

(***************************************************************************)
(* C29.  Wherever the examen code uses the value of an array element a[i]  *)
(* (the FJUMP of a while condition, the PUSH of a call argument, the `LOAD *)
(* _result` of a return, the FLOAT of an Integer element assigned to a     *)
(* Float variable) the operand used is a temporary that a preceding LOADX  *)
(* defined, never the name of the array.                                   *)
(***************************************************************************)
ElementUsedThroughLOADX ==
  \A u \in ElementUses :
    LET a == Source(u.sub.code[u.at])
    IN /\ IsTemporary(u.sub, a)
       /\ \E j \in 1..(u.at - 1) : u.sub.code[j].op = "LOADX" /\ u.sub.code[j].a = a

(***************************************************************************)
(* Running generated code.  The machine executes the instructions of one   *)
(* subroutine: vm.ip is the instruction to execute next, vm.mem the value  *)
(* of every name, vm.from the instruction executed last and vm.how whether *)
(* control came from it by a jump, vm.taken the backward jumps taken.      *)
(***************************************************************************)
MaxNegative == 2    \* how far below zero the operands go
MinOperand == 0 - MaxNegative
MaxOperand == 6
Operands == MinOperand..MaxOperand

\* the instructions the machine model executes
Executable ==
  {"ILOAD", "LOAD", "EQ", "LT", "LE", "NOT", "SUB", "MUL",
   "FJUMP", "UJUMP", "LABEL", "HALT", "RETURN"}

\* machine integers are 32 bits wide; every value computed from an operand
\* of Operands stays below Fact(MaxOperand), far inside that width

\* an operand is an integer literal or a name
Digits == 0..9
isLiteral(s) == \E k \in Digits : ToString(k) = s
valueOf(mem, s) ==
  IF isLiteral(s) THEN CHOOSE k \in Digits : ToString(k) = s ELSE mem[s]

\* the names a subroutine's code mentions
NamesOf(code) ==
  UNION {{code[i].a, code[i].b, code[i].c} : i \in DOMAIN code} \ {""}

\* the place of a label
PlaceOf(code, l) == CHOOSE i \in DOMAIN code : code[i].op = "LABEL" /\ code[i].a = l

\* one instruction: the machine after executing code[m.ip]
execute(code, m) ==
  LET ins == code[m.ip]
      val(s) == valueOf(m.mem, s)
      truth(b) == IF b THEN 1 ELSE 0
      next == [m EXCEPT !.ip = m.ip + 1, !.from = m.ip, !.how = "next"]
      set(v) == [next EXCEPT !.mem[ins.a] = v]
      jump(l) == [m EXCEPT !.ip = PlaceOf(code, l), !.from = m.ip, !.how = "jump",
                           !.taken = IF PlaceOf(code, l) <= m.ip THEN @ + 1 ELSE @]
  IN CASE ins.op \in {"ILOAD", "LOAD"} -> set(val(ins.b))
       [] ins.op = "EQ" -> set(truth(val(ins.b) = val(ins.c)))
       [] ins.op = "LT" -> set(truth(val(ins.b) < val(ins.c)))
       [] ins.op = "LE" -> set(truth(val(ins.b) <= val(ins.c)))
       [] ins.op = "NOT" -> set(truth(val(ins.b) = 0))
       [] ins.op = "SUB" -> set(val(ins.b) - val(ins.c))
       [] ins.op = "MUL" -> set(val(ins.b) * val(ins.c))
       [] ins.op = "FJUMP" -> IF val(ins.a) = 0 THEN jump(ins.b) ELSE next
       [] ins.op = "UJUMP" -> jump(ins.a)
       [] ins.op = "LABEL" -> next
       [] ins.op = "HALT" -> [m EXCEPT !.status = "halted"]
       [] ins.op = "RETURN" -> [m EXCEPT !.status = "returned"]

\* the program whose only statement is x := x!
FactorialStmt == AssignStmt(LeftIdent("x"), Factorial(X))
FactorialProgram == TestProgram("", <<FactorialStmt>>)

\* the function whose code runs (the last one, holding the statement) and
\* the integer variable holding the input
RunFunction == Len(FactorialProgram)
OperandName == "x"

\* the machine is loaded with the subroutine of the function once the code
\* generator has finished, the input n in the variable
MachineStart ==
  /\ pc.pass = "done" /\ pc.i = 1
  /\ vm.status = "off"
  /\ RunFunction <= Len(my_code)
  /\ \A i \in DOMAIN my_code[RunFunction].code :
       my_code[RunFunction].code[i].op \in Executable
  /\ \E n \in Operands :
       vm' = [status |-> "running", sub |-> RunFunction, ip |-> 1,
              mem |-> [a \in NamesOf(my_code[RunFunction].code) |->
                         IF a = OperandName THEN n ELSE 0],
              operand |-> n, taken |-> 0, from |-> 0, how |-> "start"]
  /\ UNCHANGED <<variant, tree, pc, Symbols, Decorations, Errors, unsetTy,
                 lParamsTy, currFunctionType, codeCounters, subr, my_code,
                 traversal>>

MachineStep ==
  /\ vm.status = "running"
  /\ vm' = execute(my_code[vm.sub].code, vm)
  /\ UNCHANGED <<variant, tree, pc, Symbols, Decorations, Errors, unsetTy,
                 lParamsTy, currFunctionType, codeCounters, subr, my_code,
                 traversal>>

InitFactorial == Init /\ variant = "examen" /\ tree = FactorialProgram

NextFactorial == Next \/ MachineStart \/ MachineStep

\* a started machine keeps executing
SpecFactorial == InitFactorial /\ [][NextFactorial]_vars /\ WF_vars(MachineStep)

RECURSIVE Fact(_)
Fact(n) == IF n <= 1 THEN 1 ELSE n * Fact(n - 1)

\* where the factorial expression of FactorialStmt sits, and its result
FactorialAt == <<RunFunction, 3, 1, 2>>
RunCode == my_code[vm.sub].code
ResultTemporary ==
  RunCode[Nth({i \in DOMAIN RunCode : RunCode[i].own = FactorialAt}, 1)].a
\* code[i] is the label of the HALT or of the zero case
IsTrapOrZeroLabel(ins) ==
  /\ ins.op = "LABEL"
  /\ \E n \in LabelNumbers : ins.a \in {"halt" \o n, "zeroCase" \o n}

FactorialOutcome ==
  vm.status # "off" =>
    /\ vm.taken <= (IF vm.operand >= 1 THEN vm.operand - 1 ELSE 0)
    /\ vm.status = "halted" => vm.operand < 0 /\ RunCode[vm.ip].op = "HALT"
    /\ vm.status = "returned" =>
         /\ vm.operand >= 0
         /\ vm.mem[ResultTemporary] = Fact(vm.operand)
    /\ IsTrapOrZeroLabel(RunCode[vm.ip]) =>
         /\ vm.how = "jump"
         /\ RunCode[vm.from].op = "FJUMP"
         /\ Target(RunCode[vm.from]) = RunCode[vm.ip].a

(***************************************************************************)
(* C30.  Running the instructions the examen code generator emits for a    *)
(* factorial of an integer n: for n < 0 the run reaches the HALT; for      *)
(* n = 0 it ends with 1 in the result temporary; for n >= 1 it ends with   *)
(* n! there after at most n - 1 turns of the loop; and the HALT and the    *)
(* zero case are entered only by the FJUMP that targets them, never by     *)
(* falling through from the loop.                                          *)
(***************************************************************************)
FactorialRuns ==
  /\ []FactorialOutcome
  /\ (vm.status = "running" /\ vm.operand < 0) ~> (vm.status = "halted")
  /\ (vm.status = "running" /\ vm.operand >= 0) ~> (vm.status = "returned")

FactorialRunsWitness ==
  /\ vm.status = "returned"
  /\ vm.operand = MaxOperand
  /\ vm.taken = MaxOperand - 1
  /\ vm.mem[ResultTemporary] = Fact(MaxOperand)
  /\ vm.mem[OperandName] = Fact(MaxOperand)

====
